---- MODULE Spec2Model ----
(***************************************************************************)
(* Model of the postal-code search core of zipcode-to-address:             *)
(* SearchService (src/src/services/search-service.js) over the prepared    *)
(* statements of the DuckDB store (src/src/database/schema.js).  Spec is   *)
(* the lookup path (searchPostalCode), FairSpec the same with store calls  *)
(* of the prefix loop settling, SuggestSpec the suggest path, ScoreSpec    *)
(* the scorer applied to enumerated strings.                               *)
(*                                                                         *)
(* Strings are sequences of one-character strings.  A similarity score is  *)
(* the exact rational value of the JavaScript expression, held as an       *)
(* integer number of 1/ScoreScale units (ScoreScale stands for 1.0).       *)
(***************************************************************************)
EXTENDS Integers, Sequences, FiniteSets, TLC

VARIABLES
    pc,           \* position of the request being served
    req,          \* arguments of the call: [country, postalCode, fuzzy]
    query,        \* normalized query: [country, postalCode]
    exactResults, \* rows returned by findExactMatches
    allResults,   \* findFuzzyMatches: candidates kept so far (with similarity_score)
    seenRecords,  \* findFuzzyMatches: dedup keys seen so far
    partial,      \* partialPostalCodeSearch: rows accumulated so far
    len,          \* partialPostalCodeSearch: loop variable
    calls,        \* store calls issued by the request, in order
    elapsed,      \* Date.now() - startTime
    response,     \* value the call resolved to
    sq, st, sres, \* scorer harness: query, target, calculateSimilarity(query, target)
    addrInput,    \* address harness: the row given to constructFullAddress
    fullAddress,  \* address harness: constructFullAddress(addrInput)
    caller,       \* who awaits the service: a route of server.js or searchMultiple
    searches,     \* searchMultiple: the list it was given
    batchResults, \* searchMultiple: its results array
    statsPromise, \* the promise of SearchService.getStats
    db,           \* what the store counts: [total_records, countries]
    http,         \* the answer written to res: [status, body]
    parked        \* a request suspended at an await while another one runs

vars == <<pc, req, query, exactResults, allResults, seenRecords,
          partial, len, calls, elapsed, response, sq, st, sres,
          addrInput, fullAddress, caller, searches, batchResults, statsPromise,
          db, http, parked>>

lookupVars == <<pc, req, query, exactResults, allResults, seenRecords,
                partial, len, calls, elapsed, response>>

scoreVars == <<sq, st, sres>>

addressVars == <<addrInput, fullAddress>>

serverVars == <<caller, searches, batchResults, statsPromise, db, http>>

\* what a step of one lookup or suggest request leaves alone
outerVars == <<scoreVars, addressVars, serverVars, parked>>

----------------------------------------------------------------------------
(* Bounds of the model *)

\* longest postal-code argument enumerated for a lookup
MaxLen == 4

\* longest postal code enumerated with surrounding blanks
MaxPadded == 2

\* longest string enumerated for the scorer
MaxScoreLen == 4

\* largest number of milliseconds a request may take
MaxTick == 1

\* longest list of searches given to searchMultiple
MaxBatch == 2

\* largest number of rows of postal_codes, and of countries, the store counts
MaxRecords == 3

MaxCountries == 3

----------------------------------------------------------------------------
(* Strings *)

Min2(a, b) == IF a <= b THEN a ELSE b

Max2(a, b) == IF a >= b THEN a ELSE b

Abs(a) == IF a < 0 THEN 0 - a ELSE a

\* all sequences over alphabet of length at most n
RECURSIVE StringsUpTo(_, _)
StringsUpTo(alphabet, n) ==
    IF n = 0 THEN {<<>>}
    ELSE LET shorter == StringsUpTo(alphabet, n - 1)
         IN  shorter \cup {Append(s, c) : s \in shorter, c \in alphabet}

Whitespace == {" "}

\* String.prototype.trim
RECURSIVE Trim(_)
Trim(s) ==
    IF s = <<>> THEN s
    ELSE IF Head(s) \in Whitespace THEN Trim(Tail(s))
    ELSE IF s[Len(s)] \in Whitespace THEN Trim(SubSeq(s, 1, Len(s) - 1))
    ELSE s

LowerLetters ==
    <<"a", "b", "c", "d", "e", "f", "g", "h", "i", "j", "k", "l", "m",
      "n", "o", "p", "q", "r", "s", "t", "u", "v", "w", "x", "y", "z">>

UpperLetters ==
    <<"A", "B", "C", "D", "E", "F", "G", "H", "I", "J", "K", "L", "M",
      "N", "O", "P", "Q", "R", "S", "T", "U", "V", "W", "X", "Y", "Z">>

UpperOf(c) ==
    IF \E i \in 1..Len(LowerLetters) : LowerLetters[i] = c
    THEN UpperLetters[CHOOSE i \in 1..Len(LowerLetters) : LowerLetters[i] = c]
    ELSE c

LowerOf(c) ==
    IF \E i \in 1..Len(UpperLetters) : UpperLetters[i] = c
    THEN LowerLetters[CHOOSE i \in 1..Len(UpperLetters) : UpperLetters[i] = c]
    ELSE c

\* String.prototype.toUpperCase
ToUpperCase(s) == [i \in 1..Len(s) |-> UpperOf(s[i])]

\* String.prototype.toLowerCase
ToLowerCase(s) == [i \in 1..Len(s) |-> LowerOf(s[i])]

\* String.prototype.substring(0, n)
\* variant: the string is not shortened
SubstringWhole(s, n) == s

Substring0(s, n) == SubSeq(s, 1, Min2(n, Len(s)))

----------------------------------------------------------------------------
(* Similarity scorer *)

\* longest postal code held by the store of this model
LongestStored == 6

\* longest string the scorer is applied to in this model
LongestLen == Max2(Max2(MaxLen, MaxScoreLen), LongestStored)

RECURSIVE Gcd(_, _)
Gcd(a, b) == IF b = 0 THEN a ELSE Gcd(b, a % b)

RECURSIVE LcmUpTo(_)
LcmUpTo(n) == IF n <= 1 THEN 1 ELSE LET l == LcmUpTo(n - 1) IN (l * n) \div Gcd(l, n)

\* the integer that stands for the score 1.0
ScoreScale == 100 * LcmUpTo(LongestLen)

\* one row of the edit-distance table: acc holds the entries 0..j-1 of the row
RECURSIVE LevRowFill(_, _, _, _, _)
LevRowFill(prev, ch, t, j, acc) ==
    IF j > Len(t) THEN acc
    ELSE LET cost == IF ch = t[j] THEN 0 ELSE 1
             v == Min2(Min2(prev[j + 1] + 1, acc[j] + 1), prev[j] + cost)
         IN  LevRowFill(prev, ch, t, j + 1, Append(acc, v))

RECURSIVE LevRows(_, _, _, _)
LevRows(q, t, i, prev) ==
    IF i > Len(q) THEN prev
    ELSE LevRows(q, t, i + 1, LevRowFill(prev, q[i], t, 1, <<i>>))

\* levenshtein.get(query, target)
Levenshtein(q, t) == LevRows(q, t, 1, [k \in 1..(Len(t) + 1) |-> k - 1])[Len(t) + 1]

\* the loop counting the case-insensitive common prefix
RECURSIVE PrefixLength(_, _, _)
PrefixLength(q, t, i) ==
    IF i > Min2(Len(q), Len(t)) THEN i - 1
    ELSE IF LowerOf(q[i]) = LowerOf(t[i]) THEN PrefixLength(q, t, i + 1)
    ELSE i - 1

\* variant: the prefix bonus is taken relative to the length of the query
RawSimilarityQueryPrefix(q, t) ==
    LET maxLength == Max2(Len(q), Len(t))
        unit == ScoreScale \div (10 * maxLength)
        queryUnit == IF Len(q) = 0 THEN 0 ELSE ScoreScale \div (10 * Len(q))
        distance == Levenshtein(q, t)
        similarity == ScoreScale - distance * 10 * unit
        lengthBonus == Min2(Len(q), Len(t)) * unit
        prefixBonus == PrefixLength(q, t, 1) * 2 * queryUnit
    IN  similarity + lengthBonus + prefixBonus

\* similarity + lengthBonus + prefixBonus before the cap, in 1/ScoreScale units
RawSimilarity(q, t) ==
    LET maxLength == Max2(Len(q), Len(t))
        unit == ScoreScale \div (10 * maxLength)
        distance == Levenshtein(q, t)
        similarity == ScoreScale - distance * 10 * unit
        lengthBonus == Min2(Len(q), Len(t)) * unit
        prefixBonus == PrefixLength(q, t, 1) * 2 * unit
    IN  similarity + lengthBonus + prefixBonus

\* variant: the sum is returned without Math.min(1.0, ...)
calculateSimilarityUncapped(q, t) ==
    IF q = t THEN ScoreScale
    ELSE IF Max2(Len(q), Len(t)) = 0 THEN ScoreScale
    ELSE RawSimilarity(q, t)

\* variant: no early return for identical strings, and two empty strings score 0
calculateSimilarityEmptyZero(q, t) ==
    IF Max2(Len(q), Len(t)) = 0 THEN 0
    ELSE Min2(ScoreScale, RawSimilarity(q, t))

calculateSimilarity(q, t) ==
    IF q = t THEN ScoreScale
    ELSE IF Max2(Len(q), Len(t)) = 0 THEN ScoreScale
    ELSE Min2(ScoreScale, RawSimilarity(q, t))

----------------------------------------------------------------------------
(* The store: postal_codes joined with countries *)

\* SQL NULL of the accuracy column
NullAccuracy == 0 - 1

\* a NULL text column is the empty sequence: ingestion stores NULLIF(col, '')
NullText == <<>>

Row(id, cc, code, place, name1, code1, name2, acc) ==
    [rowid |-> id, country_code |-> cc, postal_code |-> code, place_name |-> place,
     admin_name1 |-> name1, admin_code1 |-> code1, admin_name2 |-> name2,
     accuracy |-> acc]

US == <<"U", "S">>

DE == <<"D", "E">>

FR == <<"F", "R">>

IT == <<"I", "T">>

\* postal codes of IT: 22 codes that hold 11 and score 0.5 or more against the
\* query 1112
ITCodes ==
    <<<<"1", "1">>, <<"1", "1", "1">>, <<"1", "1", "3">>,
       <<"3", "1", "1">>, <<"1", "1", "1", "3">>, <<"1", "1", "3", "1">>,
       <<"1", "1", "3", "3">>, <<"1", "3", "1", "1">>, <<"3", "1", "1", "1">>,
       <<"3", "1", "1", "3">>, <<"1", "1", "1", "1", "1">>, <<"1", "1", "1", "1", "3">>,
       <<"1", "1", "1", "3", "1">>, <<"1", "1", "1", "3", "3">>, <<"1", "1", "3", "1", "1">>,
       <<"1", "1", "3", "1", "3">>, <<"1", "1", "3", "3", "1">>, <<"1", "1", "3", "3", "3">>,
       <<"1", "3", "1", "1", "1">>, <<"1", "3", "1", "1", "3">>, <<"3", "1", "1", "1", "1">>,
       <<"3", "1", "1", "1", "3">>>>

\* the rows of IT, one per code, each with an accuracy of its own
ITRows ==
    { Row(20 + i, IT, ITCodes[i], <<"V">>, NullText, NullText, NullText, i) :
        i \in 1..Len(ITCodes) }

\* further postal codes of FR: 20 codes that hold 222
FRCodes ==
    <<<<"2", "2", "2">>, <<"2", "2", "2", "3">>, <<"3", "2", "2", "2">>,
       <<"2", "2", "2", "2", "2">>, <<"2", "2", "2", "2", "3">>, <<"2", "2", "2", "3", "2">>,
       <<"2", "2", "2", "3", "3">>, <<"2", "3", "2", "2", "2">>, <<"3", "2", "2", "2", "2">>,
       <<"3", "2", "2", "2", "3">>, <<"3", "3", "2", "2", "2">>, <<"2", "2", "2", "2", "2", "2">>,
       <<"2", "2", "2", "2", "2", "3">>, <<"2", "2", "2", "2", "3", "2">>, <<"2", "2", "2", "2", "3", "3">>,
       <<"2", "2", "2", "3", "2", "2">>, <<"2", "2", "2", "3", "2", "3">>, <<"2", "2", "2", "3", "3", "2">>,
       <<"2", "2", "2", "3", "3", "3">>, <<"3", "2", "2", "2", "2", "2">>>>

\* the further rows of FR, one per code, each with an accuracy of its own
FRRows ==
    { Row(50 + i, FR, FRCodes[i], <<"W">>, NullText, NullText, NullText, 10 + i) :
        i \in 1..Len(FRCodes) }

\* the rows of postal_codes joined with countries; no request writes them.
\* Rows 2 and 3 are one record loaded from two source files, rows 6 and 14 two
\* versions of one record, as are row 15 and the first row of IT. The first
\* three codes of FR
\* score 0.6667, 0.675 and 0.68 against the query 1212.
store ==
    { Row(1, US, <<"1", "2">>, <<"B">>, <<"C", "a">>, <<"C", "A">>, <<"L">>, 4),
      Row(2, US, <<"1", "2">>, <<"H">>, <<"C", "a">>, <<"C", "A">>, NullText, 6),
      Row(3, US, <<"1", "2">>, <<"H">>, <<"C", "a">>, <<"C", "A">>, NullText, 6),
      Row(4, US, <<"1", "2", "1">>, <<"Q">>, NullText, NullText, <<"Q">>, 4),
      Row(5, US, <<"1", "2", "2">>, <<"Q">>, <<"N">>, NullText, NullText, NullAccuracy),
      Row(6, US, <<"2", "1">>, <<"A", "1", "1">>, NullText, <<"N">>, NullText, 1),
      Row(7, DE, <<"2", "1", "1", "1">>, <<"B">>, <<"B">>, <<"B", "E">>, NullText, 6),
      Row(8, DE, <<"2", "2">>, NullText, NullText, NullText, NullText, 0),
      Row(9, FR, <<"1", "2", "1", "3", "3", "3">>, <<"P">>, <<"I">>, NullText, NullText, 6),
      Row(10, FR, <<"1", "2", "3">>, <<"R">>, <<"I">>, NullText, NullText, 4),
      Row(11, FR, <<"3", "1", "2", "3", "2">>, <<"T">>, <<"I">>, NullText, NullText, 1),
      Row(12, DE, <<"2", "1">>, <<"K">>, NullText, NullText, NullText, NullAccuracy),
      Row(13, US, <<"1", "2", "1">>, <<"R">>, NullText, NullText, <<"Q">>, 4),
      Row(14, US, <<"2", "1">>, <<"A", "1", "1">>, <<"M">>, <<"N">>, NullText, 3),
      Row(15, IT, <<"1", "1">>, <<"V">>, NullText, NullText, NullText, 0) }
        \cup ITRows \cup FRRows

\* s LIKE p: % matches any run of characters, _ any one character
RECURSIVE Like(_, _)
Like(s, p) ==
    IF p = <<>> THEN s = <<>>
    ELSE IF Head(p) = "%" THEN Like(s, Tail(p)) \/ (s # <<>> /\ Like(Tail(s), p))
    ELSE /\ s # <<>>
         /\ (Head(p) = "_" \/ Head(p) = Head(s))
         /\ Like(Tail(s), Tail(p))

\* rank of a row under ORDER BY accuracy DESC (NULLs come last)
AccuracyDescRank(r) == IF r.accuracy = NullAccuracy THEN 1000 ELSE 500 - r.accuracy

\* the sequences that list every row of S once in nondecreasing rank
RECURSIVE SortedSeqs(_, _)
SortedSeqs(S, rank) ==
    IF S = {} THEN {<<>>}
    ELSE LET first == {x \in S : \A y \in S : rank[x] <= rank[y]}
         IN  UNION {{<<x>> \o s : s \in SortedSeqs(S \ {x}, rank)} : x \in first}

\* LIMIT n
Limit(s, n) == SubSeq(s, 1, Min2(n, Len(s)))

findExactLimit == 10

findFuzzyLimit == 20

findByPlaceLimit == 15

\* the results findExact may resolve to
findExact(countryCode, postalCode) ==
    LET hits == {r \in store : r.country_code = countryCode /\ r.postal_code = postalCode}
        rank == [r \in hits |-> AccuracyDescRank(r)]
    IN  {Limit(s, findExactLimit) : s \in SortedSeqs(hits, rank)}

\* variant: the pattern is % followed by the first character of the postal code
findFuzzyOnFirstCharacter(countryCode, postalCode) ==
    LET hits == {r \in store :
                    /\ r.country_code = countryCode
                    /\ Like(r.postal_code, <<"%">> \o Substring0(postalCode, 1) \o <<"%">>)}
        rank == [r \in hits |->
                    Abs(Len(r.postal_code) - Len(postalCode)) * 10000 + AccuracyDescRank(r)]
    IN  {Limit(s, findFuzzyLimit) : s \in SortedSeqs(hits, rank)}

\* the results findFuzzy may resolve to
findFuzzy(countryCode, postalCode) ==
    LET hits == {r \in store :
                    /\ r.country_code = countryCode
                    /\ \/ Like(r.postal_code, <<"%">> \o postalCode \o <<"%">>)
                       \/ Like(r.postal_code, postalCode \o <<"%">>)
                       \/ Like(postalCode, r.postal_code \o <<"%">>)}
        rank == [r \in hits |->
                    Abs(Len(r.postal_code) - Len(postalCode)) * 10000 + AccuracyDescRank(r)]
    IN  {Limit(s, findFuzzyLimit) : s \in SortedSeqs(hits, rank)}

\* the results findByPlace may resolve to
findByPlace(countryCode, placeName) ==
    LET placePattern == <<"%">> \o placeName \o <<"%">>
        hits == {r \in store :
                    /\ r.country_code = countryCode
                    /\ \/ (r.place_name # NullText /\ Like(r.place_name, placePattern))
                       \/ (r.admin_name1 # NullText /\ Like(r.admin_name1, placePattern))
                       \/ (r.admin_name2 # NullText /\ Like(r.admin_name2, placePattern))}
        rank == [r \in hits |-> AccuracyDescRank(r)]
    IN  {Limit(s, findByPlaceLimit) : s \in SortedSeqs(hits, rank)}

----------------------------------------------------------------------------
(* Match aggregation: findFuzzyMatches *)

maxResults == 20

\* how a template literal prints a column value
TemplateText(v) == IF v = NullText THEN <<"n", "u", "l", "l">> ELSE v

\* `${result.country_code}:${result.postal_code}:${result.place_name}`
RecordKey(r) ==
    TemplateText(r.country_code) \o <<":">> \o TemplateText(r.postal_code)
        \o <<":">> \o TemplateText(r.place_name)

\* the row after result.similarity_score = similarity
Scored(r, similarity) ==
    [rowid |-> r.rowid, country_code |-> r.country_code, postal_code |-> r.postal_code,
     place_name |-> r.place_name, admin_name1 |-> r.admin_name1,
     admin_code1 |-> r.admin_code1, admin_name2 |-> r.admin_name2,
     accuracy |-> r.accuracy, similarity_score |-> similarity]

\* variant: no threshold
AnySimilarity(similarity) == TRUE

\* variant: the threshold is 0.25
AboveQuarter(similarity) == 4 * similarity >= ScoreScale

\* similarity >= 0.5
AboveThreshold(similarity) == 2 * similarity >= ScoreScale

\* const allResults = []; const seenRecords = new Set()
NoCandidates == [all |-> <<>>, seen |-> {}]

\* variant: no record is skipped for its key
RECURSIVE AggregateKeepingAll(_, _, _, _)
AggregateKeepingAll(acc, results, i, postalCode) ==
    IF i > Len(results) THEN acc
    ELSE LET r == results[i]
             similarity == calculateSimilarity(postalCode, r.postal_code)
         IN  AggregateKeepingAll(
                [all |-> IF AboveThreshold(similarity)
                         THEN Append(acc.all, Scored(r, similarity))
                         ELSE acc.all,
                 seen |-> acc.seen \cup {RecordKey(r)}],
                results, i + 1, postalCode)

\* the inner loop of findFuzzyMatches over one strategy's results, from index i;
\* acc is [all |-> allResults, seen |-> seenRecords]
RECURSIVE Aggregate(_, _, _, _)
Aggregate(acc, results, i, postalCode) ==
    IF i > Len(results) THEN acc
    ELSE LET r == results[i]
             key == RecordKey(r)
             similarity == calculateSimilarity(postalCode, r.postal_code)
         IN  IF key \in acc.seen
             THEN Aggregate(acc, results, i + 1, postalCode)
             ELSE Aggregate(
                    [all |-> IF AboveThreshold(similarity)
                             THEN Append(acc.all, Scored(r, similarity))
                             ELSE acc.all,
                     seen |-> acc.seen \cup {key}],
                    results, i + 1, postalCode)

\* collation rank of a character under localeCompare
CharRank(c) ==
    CASE c = " " -> 0
      [] c = "1" -> 1
      [] c = "2" -> 2
      [] c = "3" -> 3
      [] c = "a" -> 4
      [] c = "A" -> 5
      [] OTHER -> 6

\* a.localeCompare(b): negative, zero or positive
RECURSIVE LocaleCompare(_, _)
LocaleCompare(a, b) ==
    IF a = <<>> THEN (IF b = <<>> THEN 0 ELSE 0 - 1)
    ELSE IF b = <<>> THEN 1
    ELSE IF CharRank(Head(a)) # CharRank(Head(b))
         THEN CharRank(Head(a)) - CharRank(Head(b))
    ELSE LocaleCompare(Tail(a), Tail(b))

\* accuracy || 0
AccuracyOrZero(r) == IF r.accuracy = NullAccuracy THEN 0 ELSE r.accuracy

\* pairs of scores, in hundredths, that are 0.01 apart as fractions and whose
\* doubles differ by more than the double 0.01 (IEEE 754 rounding of the sums
\* of calculateSimilarity, strings of up to 7 characters); the doubles of the
\* other pairs 0.01 apart, 0.65/0.66 and 0.75/0.76, differ by less
RoundedApart == {<<54, 55>>, <<55, 56>>, <<74, 75>>, <<94, 95>>, <<95, 96>>}

\* Math.abs(a.similarity_score - b.similarity_score) > 0.01
BeyondTolerance(x, y) ==
    LET lo == Min2(x, y)
        hi == Max2(x, y)
    IN  \/ 100 * (hi - lo) > ScoreScale
        \/ /\ 100 * (hi - lo) = ScoreScale
           /\ \E pair \in RoundedApart : 100 * lo = pair[1] * ScoreScale

\* the comparator given to sort: negative when a goes before b
CompareCandidates(a, b) ==
    IF BeyondTolerance(a.similarity_score, b.similarity_score)
    THEN b.similarity_score - a.similarity_score
    ELSE IF a.accuracy # b.accuracy
    THEN AccuracyOrZero(b) - AccuracyOrZero(a)
    ELSE LocaleCompare(a.postal_code, b.postal_code)

\* Array.prototype.sort on fewer than 64 elements (V8): the leading run is
\* found and made ascending, the rest is placed by binary insertion

\* length of the run starting at index 1; desc tells whether it is descending
RECURSIVE RunLength(_, _, _)
RunLength(s, idx, desc) ==
    IF idx > Len(s) THEN idx - 1
    ELSE LET order == CompareCandidates(s[idx], s[idx - 1])
         IN  IF desc
             THEN (IF order >= 0 THEN idx - 1 ELSE RunLength(s, idx + 1, desc))
             ELSE (IF order < 0 THEN idx - 1 ELSE RunLength(s, idx + 1, desc))

Reverse(s) == [i \in 1..Len(s) |-> s[Len(s) + 1 - i]]

CountAndMakeRun(s) ==
    IF Len(s) < 2 THEN [seq |-> s, run |-> Len(s)]
    ELSE LET desc == CompareCandidates(s[2], s[1]) < 0
             run == RunLength(s, 3, desc)
         IN  [seq |-> IF desc
                      THEN Reverse(SubSeq(s, 1, run)) \o SubSeq(s, run + 1, Len(s))
                      ELSE s,
              run |-> run]

\* the slot of pivot in s[left..right-1] (1-based, right exclusive)
RECURSIVE InsertionPoint(_, _, _, _)
InsertionPoint(s, pivot, left, right) ==
    IF left >= right THEN left
    ELSE LET mid == left + ((right - left) \div 2)
         IN  IF CompareCandidates(pivot, s[mid]) < 0
             THEN InsertionPoint(s, pivot, left, mid)
             ELSE InsertionPoint(s, pivot, mid + 1, right)

RECURSIVE BinaryInsertionSort(_, _)
BinaryInsertionSort(s, start) ==
    IF start > Len(s) THEN s
    ELSE LET pivot == s[start]
             at == InsertionPoint(s, pivot, 1, start)
             moved == SubSeq(s, 1, at - 1) \o <<pivot>> \o SubSeq(s, at, start - 1)
                          \o SubSeq(s, start + 1, Len(s))
         IN  BinaryInsertionSort(moved, start + 1)

SortCandidates(s) ==
    LET made == CountAndMakeRun(s)
    IN  BinaryInsertionSort(made.seq, made.run + 1)

\* variant: the sorted list is returned whole
SortWithoutSlice(all) == SortCandidates(all)

\* allResults.sort(...).slice(0, this.maxResults)
SortAndSlice(all) == SubSeq(SortCandidates(all), 1, Min2(maxResults, Len(all)))

\* variant: the floor is one character
MinPrefixLengthOne(postalCode) == Max2(1, (6 * Len(postalCode)) \div 10)

\* Math.max(2, Math.floor(postalCode.length * 0.6))
MinPrefixLength(postalCode) == Max2(2, (6 * Len(postalCode)) \div 10)

\* what partialPostalCodeSearch may return when no query raises: the loop from
\* prefix length n on, with results accumulated so far
RECURSIVE partialPostalCodeSearch(_, _, _, _)
partialPostalCodeSearch(country, postalCode, n, results) ==
    IF n < MinPrefixLength(postalCode) THEN {results}
    ELSE UNION { LET grown == results \o prefixResults
                 IN  IF Len(grown) >= maxResults THEN {grown}
                     ELSE partialPostalCodeSearch(country, postalCode, n - 1, grown) :
                 prefixResults \in findFuzzy(country, Substring0(postalCode, n)) }

\* what findFuzzyMatches returns when its strategies returned these rows
findFuzzyMatches(postalCode, patternRows, prefixRows, placeRows) ==
    LET afterPattern == Aggregate(NoCandidates, patternRows, 1, postalCode)
        afterPrefix == Aggregate(afterPattern, prefixRows, 1, postalCode)
        afterPlace == Aggregate(afterPrefix, placeRows, 1, postalCode)
    IN  SortAndSlice(afterPlace.all)

----------------------------------------------------------------------------
(* Output formatting *)

\* a column value is truthy: neither NULL nor ''
Present(v) == v # NullText

\* haystack.includes(needle)
Includes(haystack, needle) ==
    \E i \in 1..(Len(haystack) - Len(needle) + 1) :
        SubSeq(haystack, i, i + Len(needle) - 1) = needle

\* `${a} ${b}`: of the two, one is a column tested to be present and the other
\* the postal code, a NOT NULL column
WithSpace(a, b) == a \o <<" ">> \o b

\* the part pushed first: the place name if available
PlacePart(r) == IF Present(r.place_name) THEN <<r.place_name>> ELSE <<>>

\* the part made of the region code (or name) and the postal code: US, CA, AU
RegionPart(r) ==
    IF Present(r.admin_code1) THEN <<WithSpace(r.admin_code1, r.postal_code)>>
    ELSE IF Present(r.admin_name1) THEN <<WithSpace(r.admin_name1, r.postal_code)>>
    ELSE <<>>

\* the part pushed for an admin name that is present and differs from the place name
OtherThanPlace(name, r) ==
    IF Present(name) /\ name # r.place_name THEN <<name>> ELSE <<>>

\* parts after the switch on the country code
AddressParts(r) ==
    LET country == r.country_code
    IN  IF country = <<"U", "S">>
        THEN PlacePart(r)
                \o (IF /\ Present(r.admin_name2)
                        /\ \/ ~Present(r.place_name)
                           \/ ~Includes(ToLowerCase(r.admin_name2),
                                        ToLowerCase(r.place_name))
                     THEN <<r.admin_name2>> ELSE <<>>)
                \o RegionPart(r)
        ELSE IF country \in {<<"C", "A">>, <<"A", "U">>}
        THEN PlacePart(r) \o RegionPart(r)
        ELSE IF country \in {<<"G", "B">>, <<"U", "K">>}
        THEN PlacePart(r) \o OtherThanPlace(r.admin_name2, r)
                \o OtherThanPlace(r.admin_name1, r) \o <<r.postal_code>>
        ELSE IF country \in {<<"D", "E">>, <<"F", "R">>, <<"I", "T">>, <<"E", "S">>}
        THEN (IF Present(r.place_name)
              THEN <<WithSpace(r.postal_code, r.place_name)>> ELSE <<>>)
                \o OtherThanPlace(r.admin_name1, r)
        ELSE PlacePart(r) \o OtherThanPlace(r.admin_name2, r)
                \o OtherThanPlace(r.admin_name1, r)
                \o (IF Present(r.postal_code) THEN <<r.postal_code>> ELSE <<>>)

\* filter(part => part && part.trim().length > 0).map(part => part.trim())
RECURSIVE TrimmedParts(_)
TrimmedParts(parts) ==
    IF parts = <<>> THEN <<>>
    ELSE IF Trim(Head(parts)) = <<>> THEN TrimmedParts(Tail(parts))
    ELSE <<Trim(Head(parts))>> \o TrimmedParts(Tail(parts))

\* variant: p === part
RECURSIVE FirstOccurrencesCaseSensitive(_, _)
FirstOccurrencesCaseSensitive(parts, i) ==
    IF i > Len(parts) THEN <<>>
    ELSE IF \E j \in 1..(i - 1) : parts[j] = parts[i]
    THEN FirstOccurrencesCaseSensitive(parts, i + 1)
    ELSE <<parts[i]>> \o FirstOccurrencesCaseSensitive(parts, i + 1)

\* filter keeping a part when no earlier part equals it ignoring case, from index i
RECURSIVE FirstOccurrences(_, _)
FirstOccurrences(parts, i) ==
    IF i > Len(parts) THEN <<>>
    ELSE IF \E j \in 1..(i - 1) : ToLowerCase(parts[j]) = ToLowerCase(parts[i])
    THEN FirstOccurrences(parts, i + 1)
    ELSE <<parts[i]>> \o FirstOccurrences(parts, i + 1)

\* parts.join(', ')
RECURSIVE Join(_)
Join(parts) ==
    IF parts = <<>> THEN <<>>
    ELSE IF Len(parts) = 1 THEN Head(parts)
    ELSE Head(parts) \o <<",", " ">> \o Join(Tail(parts))

AddressNotAvailable ==
    <<"A", "d", "d", "r", "e", "s", "s", " ", "n", "o", "t", " ",
      "a", "v", "a", "i", "l", "a", "b", "l", "e">>

constructFullAddress(r) ==
    LET cleanParts == FirstOccurrences(TrimmedParts(AddressParts(r)), 1)
    IN  IF Len(cleanParts) > 0 THEN Join(cleanParts)
        ELSE IF Present(r.postal_code) THEN r.postal_code
        ELSE AddressNotAvailable

\* one element of formatResults: similarity_score is result.similarity_score || 1.0.
\* The columns admin_code2, admin_name3, admin_code3, latitude and longitude are
\* copied through and read nowhere; the model leaves them out.
FormatResult(r) ==
    [country_code |-> r.country_code, postal_code |-> r.postal_code,
     place_name |-> r.place_name, admin_name1 |-> r.admin_name1,
     admin_code1 |-> r.admin_code1, admin_name2 |-> r.admin_name2,
     accuracy |-> r.accuracy,
     fullAddress |-> constructFullAddress(r),
     similarity_score |->
        IF "similarity_score" \in DOMAIN r
        THEN (IF r.similarity_score = 0 THEN ScoreScale ELSE r.similarity_score)
        ELSE ScoreScale]

formatResults(results) == [i \in 1..Len(results) |-> FormatResult(results[i])]

----------------------------------------------------------------------------
(* Arguments and results of searchPostalCode *)

\* JavaScript values an argument may be
Undefined == [kind |-> "undefined", val |-> <<>>]

Str(s) == [kind |-> "string", val |-> s]

\* a number other than 0 and NaN
Number == [kind |-> "number", val |-> <<>>]

\* !v
Falsy(v) == v.kind = "undefined" \/ (v.kind = "string" /\ v.val = <<>>)

NoQuery == [country |-> <<>>, postalCode |-> <<>>]

NoTime == 0 - 1

\* no value yet
NoResponse ==
    [fields |-> {}, success |-> FALSE, error |-> "", matchType |-> "",
     query |-> NoQuery, results |-> <<>>, searchTime |-> NoTime]

ValidationFailure ==
    [fields |-> {"success", "error", "results"}, success |-> FALSE,
     error |-> "Country and postal code are required", matchType |-> "",
     query |-> NoQuery, results |-> <<>>, searchTime |-> NoTime]

\* variant: the caught error's message is returned
InternalErrorWithDetail(time) ==
    [fields |-> {"success", "error", "results", "searchTime"}, success |-> FALSE,
     error |-> "country.trim is not a function", matchType |-> "",
     query |-> NoQuery, results |-> <<>>, searchTime |-> time]

InternalError(time) ==
    [fields |-> {"success", "error", "results", "searchTime"}, success |-> FALSE,
     error |-> "Internal search error", matchType |-> "",
     query |-> NoQuery, results |-> <<>>, searchTime |-> time]

Found(type, q, rows, time) ==
    [fields |-> {"success", "matchType", "query", "results", "searchTime"},
     success |-> TRUE, error |-> "", matchType |-> type,
     query |-> q, results |-> formatResults(rows), searchTime |-> time]

NotFound(q, time) ==
    [fields |-> {"success", "matchType", "query", "results", "searchTime"},
     success |-> TRUE, error |-> "", matchType |-> "none",
     query |-> q, results |-> <<>>, searchTime |-> time]

\* arguments enumerated for a call
CountryArgs ==
    { Undefined, Number, Str(<<>>), Str(<<" ">>), Str(US), Str(<<" ", "u", "s">>),
      Str(DE), Str(FR), Str(IT), Str(<<"X", "X">>) }

PostalAlphabet == {"1", "2"}

\* a postal code typed with blanks around it (or blanks alone)
Padded(s) == <<" ">> \o s \o <<" ">>

PostalArgs ==
    {Undefined, Number}
        \cup {Str(s) : s \in StringsUpTo(PostalAlphabet, MaxLen)}
        \cup {Str(Padded(s)) : s \in StringsUpTo(PostalAlphabet, MaxPadded)}

\* the milliseconds a store call may take: the clock of a request stops at MaxTick
Ticks == 0..(MaxTick - elapsed)

----------------------------------------------------------------------------
(* Store calls of a request *)

Pending(op, country, arg) ==
    [op |-> op, country |-> country, arg |-> arg, status |-> "pending", rows |-> <<>>]

\* the pending call settled
Settle(log, status, rows) ==
    [log EXCEPT ![Len(log)] = [@ EXCEPT !.status = status, !.rows = rows]]

\* the pending call settled and the next one issued
SettleAndIssue(log, status, rows, op, country, arg) ==
    Append(Settle(log, status, rows), Pending(op, country, arg))

----------------------------------------------------------------------------
(* searchPostalCode: one action per synchronous stretch between store calls *)

\* variant: the country is lower-cased
NormalizeCountryLower(country) == ToLowerCase(Trim(country))

\* country.trim().toUpperCase()
NormalizeCountry(country) == ToUpperCase(Trim(country))

\* postalCode.trim()
NormalizePostalCode(postalCode) == Trim(postalCode)

\* if (!country || !postalCode)
MissingArgument(country, postalCode) == Falsy(country) \/ Falsy(postalCode)

\* variant: if (exactResults.length > 1)
ExactHitSeveral(rows) == Len(rows) > 1

\* if (exactResults.length > 0)
ExactHit(rows) == Len(rows) > 0

\* variant: the flag is ignored
FuzzyAlways(fuzzy) == TRUE

\* if (fuzzy)
FuzzyEnabled(fuzzy) == fuzzy

NoRequest == [country |-> Undefined, postalCode |-> Undefined, fuzzy |-> FALSE]

\* the call, with fresh locals: validation, normalization and the issue of the
\* exact query
searchPostalCode(country, postalCode, fuzzy) ==
    /\ req' = [country |-> country, postalCode |-> postalCode, fuzzy |-> fuzzy]
    /\ elapsed' = 0
    /\ IF MissingArgument(country, postalCode)
       THEN /\ response' = ValidationFailure
            /\ pc' = "responded"
            /\ query' = NoQuery
            /\ calls' = <<>>
       ELSE IF country.kind # "string" \/ postalCode.kind # "string"
       THEN \* .trim is not a function: the TypeError reaches the outer catch
            /\ response' = InternalError(0)
            /\ pc' = "responded"
            /\ query' = NoQuery
            /\ calls' = <<>>
       ELSE LET normalizedCountry == NormalizeCountry(country.val)
                normalizedPostalCode == NormalizePostalCode(postalCode.val)
            IN  /\ query' = [country |-> normalizedCountry,
                             postalCode |-> normalizedPostalCode]
                /\ calls' = <<Pending("findExact", normalizedCountry,
                                      normalizedPostalCode)>>
                /\ pc' = "exact"
                /\ response' = NoResponse
    /\ exactResults' = <<>>
    /\ allResults' = <<>>
    /\ seenRecords' = {}
    /\ partial' = <<>>
    /\ len' = 0

\* findExactMatches settled with rows; status tells whether the store raised
AfterExact(rows, status, d) ==
    /\ pc = "exact"
    /\ exactResults' = rows
    /\ elapsed' = elapsed + d
    /\ IF ExactHit(rows)
       THEN /\ response' = Found("exact", query, rows, elapsed')
            /\ calls' = Settle(calls, status, rows)
            /\ pc' = "responded"
       ELSE IF FuzzyEnabled(req.fuzzy)
       THEN /\ calls' = SettleAndIssue(calls, status, rows,
                                       "findFuzzy", query.country, query.postalCode)
            /\ pc' = "fuzzyPattern"
            /\ UNCHANGED response
       ELSE /\ response' = NotFound(query, elapsed')
            /\ calls' = Settle(calls, status, rows)
            /\ pc' = "responded"
    /\ UNCHANGED <<req, query, allResults, seenRecords, partial, len>>
    /\ UNCHANGED outerVars

findExactReturns ==
    /\ pc = "exact"
    /\ \E rows \in findExact(query.country, query.postalCode), d \in Ticks :
          AfterExact(rows, "ok", d)

findExactRaises ==
    \E d \in Ticks : AfterExact(<<>>, "error", d)

\* fuzzyPostalCodeSearch settled with rows; partialPostalCodeSearch begins
AfterFuzzyPattern(rows, status, d) ==
    /\ pc = "fuzzyPattern"
    /\ elapsed' = elapsed + d
    /\ LET acc == Aggregate(NoCandidates, rows, 1, query.postalCode)
           first == Len(query.postalCode) - 1
       IN  /\ allResults' = acc.all
           /\ seenRecords' = acc.seen
           /\ IF first >= MinPrefixLength(query.postalCode)
              THEN /\ calls' = SettleAndIssue(calls, status, rows, "findFuzzy",
                                   query.country, Substring0(query.postalCode, first))
                   /\ len' = first
                   /\ pc' = "partial"
              ELSE /\ calls' = SettleAndIssue(calls, status, rows, "findByPlace",
                                   query.country, query.postalCode)
                   /\ UNCHANGED len
                   /\ pc' = "place"
    /\ UNCHANGED <<req, query, exactResults, partial, response>>
    /\ UNCHANGED outerVars

findFuzzyReturns ==
    /\ pc = "fuzzyPattern"
    /\ \E rows \in findFuzzy(query.country, query.postalCode), d \in Ticks :
          AfterFuzzyPattern(rows, "ok", d)

findFuzzyRaises ==
    \E d \in Ticks : AfterFuzzyPattern(<<>>, "error", d)

\* one query of the loop of partialPostalCodeSearch returned prefixResults
prefixQueryReturns ==
    /\ pc = "partial"
    /\ \E prefixResults \in findFuzzy(query.country, Substring0(query.postalCode, len)),
          d \in Ticks :
          LET results == partial \o prefixResults
          IN  /\ elapsed' = elapsed + d
              /\ IF Len(results) >= maxResults
                    \/ len - 1 < MinPrefixLength(query.postalCode)
                 THEN LET acc == Aggregate([all |-> allResults, seen |-> seenRecords],
                                           results, 1, query.postalCode)
                      IN  /\ allResults' = acc.all
                          /\ seenRecords' = acc.seen
                          /\ calls' = SettleAndIssue(calls, "ok", prefixResults,
                                         "findByPlace", query.country, query.postalCode)
                          /\ pc' = "place"
                          /\ UNCHANGED len
                 ELSE /\ calls' = SettleAndIssue(calls, "ok", prefixResults, "findFuzzy",
                                     query.country, Substring0(query.postalCode, len - 1))
                      /\ len' = len - 1
                      /\ pc' = "partial"
                      /\ UNCHANGED <<allResults, seenRecords>>
              /\ partial' = results
    /\ UNCHANGED <<req, query, exactResults, response>>
    /\ UNCHANGED outerVars

\* variant: the rows accumulated before the failing query are returned
prefixQueryRaisesKeepingRows ==
    /\ pc = "partial"
    /\ \E d \in Ticks : elapsed' = elapsed + d
    /\ LET acc == Aggregate([all |-> allResults, seen |-> seenRecords],
                            partial, 1, query.postalCode)
       IN  /\ allResults' = acc.all
           /\ seenRecords' = acc.seen
    /\ calls' = SettleAndIssue(calls, "error", <<>>,
                               "findByPlace", query.country, query.postalCode)
    /\ pc' = "place"
    /\ UNCHANGED <<req, query, exactResults, partial, len, response>>
    /\ UNCHANGED outerVars

\* one query of the loop raised: partialPostalCodeSearch returns []
prefixQueryRaises ==
    /\ pc = "partial"
    /\ \E d \in Ticks : elapsed' = elapsed + d
    /\ calls' = SettleAndIssue(calls, "error", <<>>,
                               "findByPlace", query.country, query.postalCode)
    /\ partial' = <<>>
    /\ pc' = "place"
    /\ UNCHANGED <<req, query, exactResults, allResults, seenRecords, len,
                   response>>
    /\ UNCHANGED outerVars

\* placeNameSearch settled with rows; findFuzzyMatches sorts and returns
AfterPlace(rows, status, d) ==
    /\ pc = "place"
    /\ elapsed' = elapsed + d
    /\ LET acc == Aggregate([all |-> allResults, seen |-> seenRecords],
                            rows, 1, query.postalCode)
           fuzzyResults == SortAndSlice(acc.all)
       IN  /\ allResults' = SortCandidates(acc.all)
           /\ seenRecords' = acc.seen
           /\ response' = IF Len(fuzzyResults) > 0
                          THEN Found("fuzzy", query, fuzzyResults, elapsed')
                          ELSE NotFound(query, elapsed')
    /\ calls' = Settle(calls, status, rows)
    /\ pc' = "responded"
    /\ UNCHANGED <<req, query, exactResults, partial, len>>
    /\ UNCHANGED outerVars

findByPlaceReturns ==
    /\ pc = "place"
    /\ \E rows \in findByPlace(query.country, query.postalCode), d \in Ticks :
          AfterPlace(rows, "ok", d)

findByPlaceRaises ==
    \E d \in Ticks : AfterPlace(<<>>, "error", d)

\* the request's objects are dropped
Drop ==
    /\ pc' = "idle"
    /\ req' = NoRequest
    /\ query' = NoQuery
    /\ exactResults' = <<>>
    /\ allResults' = <<>>
    /\ seenRecords' = {}
    /\ partial' = <<>>
    /\ len' = 0
    /\ calls' = <<>>
    /\ elapsed' = 0
    /\ response' = NoResponse

\* the caller of a lookup or suggest of its own has the result
Return ==
    /\ pc = "responded"
    /\ caller = "none"
    /\ Drop
    /\ UNCHANGED outerVars

\* a lookup of its own, as GET /lookup makes it
Call ==
    /\ pc = "idle"
    /\ caller = "none"
    /\ \E country \in CountryArgs, postalCode \in PostalArgs, fuzzy \in BOOLEAN :
          searchPostalCode(country, postalCode, fuzzy)
    /\ UNCHANGED outerVars

----------------------------------------------------------------------------
(* The state around a request, before any caller or harness acts *)

\* no row has been given to constructFullAddress
NoAddressInput ==
    Row(0, NullText, NullText, NullText, NullText, NullText, NullText, NullAccuracy)

NotComposed == <<"not composed">>

\* getStats has not been called
NoPromise == [state |-> "none", total_records |-> 0, countries |-> 0]

\* SELECT COUNT(*) FROM postal_codes, SELECT COUNT(*) FROM countries
StoreCounts ==
    [total_records |-> Cardinality(store),
     countries |-> Cardinality({r.country_code : r \in store})]

\* nothing has been written to res
NoAnswer == [status |-> 0, body |-> [kind |-> "none"]]

\* the locals of a request that has not started
IdleContext ==
    [pc |-> "idle", req |-> NoRequest, query |-> NoQuery, exactResults |-> <<>>,
     allResults |-> <<>>, seenRecords |-> {}, partial |-> <<>>, len |-> 0,
     calls |-> <<>>, elapsed |-> 0, response |-> NoResponse,
     caller |-> "none", searches |-> <<>>, batchResults |-> <<>>, http |-> NoAnswer]

\* outside the harnesses and the callers
Apart ==
    /\ addrInput = NoAddressInput
    /\ fullAddress = NotComposed
    /\ caller = "none"
    /\ searches = <<>>
    /\ batchResults = <<>>
    /\ statsPromise = NoPromise
    /\ db = StoreCounts
    /\ http = NoAnswer
    /\ parked = IdleContext

Init ==
    /\ pc = "idle"
    /\ req = NoRequest
    /\ query = NoQuery
    /\ exactResults = <<>>
    /\ allResults = <<>>
    /\ seenRecords = {}
    /\ partial = <<>>
    /\ len = 0
    /\ calls = <<>>
    /\ elapsed = 0
    /\ response = NoResponse
    /\ sq = <<>>
    /\ st = <<>>
    /\ sres = 0 - 1
    /\ Apart

Next ==
    \/ Call
    \/ findExactReturns
    \/ findExactRaises
    \/ findFuzzyReturns
    \/ findFuzzyRaises
    \/ prefixQueryReturns
    \/ prefixQueryRaises
    \/ findByPlaceReturns
    \/ findByPlaceRaises
    \/ Return

Spec == Init /\ [][Next]_vars

\* a query of the prefix loop that the store has been given settles: it
\* returns rows or raises
FairSpec == Spec /\ WF_vars(prefixQueryRaises \/ prefixQueryReturns)

----------------------------------------------------------------------------
(* suggest: the call, its one store query, and the result *)

\* `${suggestion.postal_code}:${suggestion.place_name}`
SuggestionKey(r) == TemplateText(r.postal_code) \o <<":">> \o TemplateText(r.place_name)

\* the object pushed to uniqueSuggestions
Suggestion(r) ==
    [postal_code |-> r.postal_code, place_name |-> r.place_name,
     admin_name1 |-> r.admin_name1]

\* variant: the key is not looked up in seen
RECURSIVE UniqueSuggestionsKeepingDuplicates(_, _, _, _, _)
UniqueSuggestionsKeepingDuplicates(suggestions, i, limit, seen, unique) ==
    IF i > Len(suggestions) THEN unique
    ELSE IF Len(unique) < limit
         THEN UniqueSuggestionsKeepingDuplicates(suggestions, i + 1, limit, seen,
                                    Append(unique, Suggestion(suggestions[i])))
         ELSE UniqueSuggestionsKeepingDuplicates(suggestions, i + 1, limit, seen, unique)

\* the loop over suggestions from index i; seen and unique are its Set and array
RECURSIVE UniqueSuggestions(_, _, _, _, _)
UniqueSuggestions(suggestions, i, limit, seen, unique) ==
    IF i > Len(suggestions) THEN unique
    ELSE LET key == SuggestionKey(suggestions[i])
         IN  IF key \notin seen /\ Len(unique) < limit
             THEN UniqueSuggestions(suggestions, i + 1, limit, seen \cup {key},
                                    Append(unique, Suggestion(suggestions[i])))
             ELSE UniqueSuggestions(suggestions, i + 1, limit, seen, unique)

NoSuggestQuery == [country |-> <<>>, partial |-> <<>>]

SuggestValidationFailure ==
    [fields |-> {"success", "error", "suggestions"}, success |-> FALSE,
     error |-> "Country and at least 2 characters of postal code required",
     query |-> NoSuggestQuery, suggestions |-> <<>>]

InternalSuggestionError ==
    [fields |-> {"success", "error", "suggestions"}, success |-> FALSE,
     error |-> "Internal suggestion error",
     query |-> NoSuggestQuery, suggestions |-> <<>>]

Suggested(q, unique) ==
    [fields |-> {"success", "query", "suggestions"}, success |-> TRUE,
     error |-> "", query |-> q, suggestions |-> unique]

\* partialPostalCode.length < 2 (the length of a number is undefined: false)
TooShort(partialPostalCode) ==
    partialPostalCode.kind = "string" /\ Len(partialPostalCode.val) < 2

\* values of the limit argument
SuggestLimits == {1, 2, 10}

\* the call: validation, normalization and the issue of the store query
suggest(country, partialPostalCode, limit) ==
    /\ req' = [country |-> country, partial |-> partialPostalCode, limit |-> limit]
    /\ IF Falsy(country) \/ Falsy(partialPostalCode) \/ TooShort(partialPostalCode)
       THEN /\ response' = SuggestValidationFailure
            /\ pc' = "responded"
            /\ UNCHANGED <<query, calls>>
       ELSE IF country.kind # "string" \/ partialPostalCode.kind # "string"
       THEN \* .trim is not a function: the TypeError reaches the catch
            /\ response' = InternalSuggestionError
            /\ pc' = "responded"
            /\ UNCHANGED <<query, calls>>
       ELSE LET normalizedCountry == NormalizeCountry(country.val)
                normalizedPartial == Trim(partialPostalCode.val)
            IN  /\ query' = [country |-> normalizedCountry,
                             partial |-> normalizedPartial]
                /\ calls' = <<Pending("findFuzzy", normalizedCountry,
                                      normalizedPartial)>>
                /\ pc' = "suggest"
                /\ UNCHANGED response
    /\ UNCHANGED <<exactResults, allResults, seenRecords, partial, len, elapsed>>

\* the store query returned: the suggestions are made unique and cut to limit
suggestFindFuzzyReturns ==
    /\ pc = "suggest"
    /\ \E suggestions \in findFuzzy(query.country, query.partial) :
          /\ response' = Suggested(query, UniqueSuggestions(suggestions, 1, req.limit,
                                                            {}, <<>>))
          /\ calls' = Settle(calls, "ok", suggestions)
    /\ pc' = "responded"
    /\ UNCHANGED <<req, query, exactResults, allResults, seenRecords, partial, len,
                   elapsed>>
    /\ UNCHANGED outerVars

\* the store query raised: the error reaches the catch of suggest
suggestFindFuzzyRaises ==
    /\ pc = "suggest"
    /\ response' = InternalSuggestionError
    /\ calls' = Settle(calls, "error", <<>>)
    /\ pc' = "responded"
    /\ UNCHANGED <<req, query, exactResults, allResults, seenRecords, partial, len,
                   elapsed>>
    /\ UNCHANGED outerVars

\* the partial postal codes enumerated: those of a lookup and one that holds
\* a character LIKE reads as a wildcard
PartialArgs == PostalArgs \cup {Str(<<"2", "_">>)}

SuggestCall ==
    /\ pc = "idle"
    /\ caller = "none"
    /\ \E country \in CountryArgs, partialPostalCode \in PartialArgs,
          limit \in SuggestLimits :
          suggest(country, partialPostalCode, limit)
    /\ UNCHANGED outerVars

SuggestNext ==
    \/ SuggestCall
    \/ suggestFindFuzzyReturns
    \/ suggestFindFuzzyRaises
    \/ Return

SuggestSpec == Init /\ [][SuggestNext]_vars

----------------------------------------------------------------------------
(* POST /lookup/batch and searchMultiple *)

\* the handler ended: the objects of the request are dropped
Finish ==
    /\ http # NoAnswer
    /\ caller' = "none"
    /\ searches' = <<>>
    /\ batchResults' = <<>>
    /\ statsPromise' = NoPromise
    /\ http' = NoAnswer
    /\ Drop
    /\ UNCHANGED <<db, scoreVars, addressVars, parked>>

\* an item of the searches array as JSON gives it: an object, null, or a string
SearchObject(country, postalCode, fuzzy) ==
    [kind |-> "object", country |-> country, postalCode |-> postalCode, fuzzy |-> fuzzy]

NullItem ==
    [kind |-> "null", country |-> Undefined, postalCode |-> Undefined,
     fuzzy |-> "undefined"]

StringItem ==
    [kind |-> "string", country |-> Undefined, postalCode |-> Undefined,
     fuzzy |-> "undefined"]

\* search.country, search.postalCode: a string has no such property
Property(search, name) == IF search.kind = "object" THEN search[name] ELSE Undefined

\* search.fuzzy !== false
NotFalse(search) == ~(search.kind = "object" /\ search.fuzzy = "false")

\* { query: search, ...result }: the query of the result, if any, replaces search
WithQuery(search, result) ==
    [result EXCEPT !.fields = @ \cup {"query"},
                   !.query = IF "query" \in result.fields THEN result.query ELSE search]

BadRequest ==
    [status |-> 400,
     body |-> [kind |-> "error", success |-> FALSE,
               error |-> "Request body must contain an array of searches"]]

TooManySearches ==
    [status |-> 400,
     body |-> [kind |-> "error", success |-> FALSE,
               error |-> "Maximum 50 searches per batch request"]]

ServerError ==
    [status |-> 500,
     body |-> [kind |-> "error", success |-> FALSE, error |-> "Internal server error"]]

\* res.json({ success: true, count: results.length, results })
BatchAnswer(results) ==
    [status |-> 200,
     body |-> [kind |-> "batch", success |-> TRUE, count |-> Len(results),
               results |-> results]]

maxBatchSize == 50

\* the for loop of searchMultiple from item k on, results being the array so
\* far: it runs until the next await, the end of the list, or a TypeError on
\* search.country, which rejects searchMultiple and reaches the route's catch
SearchMultipleFrom(list, k, results) ==
    /\ batchResults' = results
    /\ IF k > Len(list)
       THEN /\ http' = BatchAnswer(results)
            /\ Drop
       ELSE IF list[k].kind = "null"
       THEN /\ http' = ServerError
            /\ Drop
       ELSE /\ searchPostalCode(Property(list[k], "country"),
                                Property(list[k], "postalCode"), NotFalse(list[k]))
            /\ http' = NoAnswer

\* items of the request body
BatchItems ==
    { SearchObject(Str(US), Str(<<"1", "2">>), "undefined"),
      SearchObject(Str(DE), Str(<<"2", "2", "2">>), "true"),
      SearchObject(Str(DE), Str(<<"2">>), "false"),
      SearchObject(Undefined, Str(<<"1", "2">>), "undefined"),
      SearchObject(Str(US), Number, "undefined"),
      StringItem,
      NullItem }

\* req.body.searches: not an array, or an array of up to MaxBatch items
NotAnArray == <<[kind |-> "not an array"]>>

RECURSIVE ListsUpTo(_, _)
ListsUpTo(items, n) ==
    IF n = 0 THEN {<<>>}
    ELSE LET shorter == ListsUpTo(items, n - 1)
         IN  shorter \cup {Append(l, x) : l \in {s \in shorter : Len(s) = n - 1},
                                          x \in items}

BatchBodies == {NotAnArray} \cup ListsUpTo(BatchItems, MaxBatch)

\* POST /lookup/batch with this req.body.searches, up to the first await
PostBatch(body) ==
    /\ caller' = "batch"
    /\ IF body = NotAnArray \/ Len(body) = 0
       THEN /\ http' = BadRequest
            /\ Drop
            /\ UNCHANGED <<searches, batchResults>>
       ELSE IF Len(body) > maxBatchSize
       THEN /\ http' = TooManySearches
            /\ Drop
            /\ UNCHANGED <<searches, batchResults>>
       ELSE /\ searches' = body
            /\ SearchMultipleFrom(body, 1, <<>>)

batchRoute ==
    /\ pc = "idle"
    /\ caller = "none"
    /\ http = NoAnswer
    /\ \E body \in BatchBodies : PostBatch(body)
    /\ UNCHANGED <<statsPromise, db, scoreVars, addressVars, parked>>

\* the awaited lookup resolved: its result is pushed and the loop goes on
searchMultipleResumes ==
    /\ pc = "responded"
    /\ caller = "batch"
    /\ LET k == Len(batchResults) + 1
       IN  SearchMultipleFrom(searches, k + 1,
                              Append(batchResults, WithQuery(searches[k], response)))
    /\ UNCHANGED <<caller, searches, statsPromise, db, scoreVars, addressVars, parked>>

BatchNext ==
    \/ batchRoute
    \/ searchMultipleResumes
    \/ findExactReturns
    \/ findExactRaises
    \/ findFuzzyReturns
    \/ findFuzzyRaises
    \/ prefixQueryReturns
    \/ prefixQueryRaises
    \/ findByPlaceReturns
    \/ findByPlaceRaises
    \/ Finish

BatchSpec == Init /\ [][BatchNext]_vars

----------------------------------------------------------------------------
(* GET /health, GET /stats, getStats and healthCheck *)

\* what the promise of getStats resolved to: the counts, or null
Fulfilled(counts) ==
    [state |-> "stats", total_records |-> counts.total_records,
     countries |-> counts.countries]

FulfilledNull == [state |-> "null", total_records |-> 0, countries |-> 0]

Pending0 == [state |-> "pending", total_records |-> 0, countries |-> 0]

\* JSON.stringify of a promise's value, or of a promise itself
StatsJson(promise) ==
    IF promise.state = "stats"
    THEN [kind |-> "stats", total_records |-> promise.total_records,
          countries |-> promise.countries]
    ELSE IF promise.state = "null" THEN [kind |-> "null"]
    ELSE [kind |-> "empty object"]

\* variant: stats && stats.total_records >= 0
HealthyFromZero(stats) ==
    IF stats.state = "null" THEN "null"
    ELSE IF stats.total_records >= 0 THEN "true" ELSE "false"

\* stats && stats.total_records > 0
Healthy(stats) ==
    IF stats.state = "null" THEN "null"
    ELSE IF stats.total_records > 0 THEN "true" ELSE "false"

\* res.status(health.healthy ? 200 : 503).json({status, ...health})
HealthAnswer(stats, responseTime) ==
    LET healthy == Healthy(stats)
    IN  [status |-> IF healthy = "true" THEN 200 ELSE 503,
         body |-> [kind |-> "health",
                   status |-> IF healthy = "true" THEN "healthy" ELSE "unhealthy",
                   healthy |-> healthy, stats |-> StatsJson(stats),
                   responseTime |-> responseTime]]

StatisticsUnavailable ==
    [status |-> 503,
     body |-> [kind |-> "error", success |-> FALSE, error |-> "Statistics unavailable"]]

\* res.json({ success: true, stats, timestamp })
StatsAnswer(stats) ==
    [status |-> 200, body |-> [kind |-> "stats", success |-> TRUE, stats |-> StatsJson(stats)]]

\* !stats in GET /stats, where stats is the promise getStats returned: an
\* object is never falsy
NoStats(promise) == FALSE

\* GET /health up to the await of database.getStats inside healthCheck
healthRoute ==
    /\ pc = "idle"
    /\ caller = "none"
    /\ http = NoAnswer
    /\ caller' = "health"
    /\ statsPromise' = Pending0
    /\ UNCHANGED <<http, searches, batchResults, db, lookupVars, scoreVars,
                   addressVars, parked>>

\* GET /stats: getStats() is called and not awaited, so stats is the promise,
\* which is truthy, and the handler answers before it settles
statsRoute ==
    /\ pc = "idle"
    /\ caller = "none"
    /\ http = NoAnswer
    /\ caller' = "stats"
    /\ statsPromise' = Pending0
    /\ http' = IF NoStats(Pending0) THEN StatisticsUnavailable
               ELSE StatsAnswer(Pending0)
    /\ UNCHANGED <<searches, batchResults, db, lookupVars, scoreVars, addressVars,
                   parked>>

\* getStats settled with stats (null after a store error); healthCheck, if
\* it awaits it, resolves and the route answers
AfterGetStats(stats, d) ==
    /\ statsPromise.state = "pending"
    /\ statsPromise' = stats
    /\ IF caller = "health"
       THEN /\ elapsed' = elapsed + d
            /\ http' = HealthAnswer(stats, elapsed')
       ELSE UNCHANGED <<elapsed, http>>
    /\ UNCHANGED <<pc, req, query, exactResults, allResults, seenRecords, partial,
                   len, calls, response>>
    /\ UNCHANGED <<caller, searches, batchResults, db, scoreVars, addressVars, parked>>

getStatsReturns == \E d \in Ticks : AfterGetStats(Fulfilled(db), d)

getStatsRaises == \E d \in Ticks : AfterGetStats(FulfilledNull, d)

\* a store of any size within the bounds
HealthInit ==
    /\ pc = "idle"
    /\ req = NoRequest
    /\ query = NoQuery
    /\ exactResults = <<>>
    /\ allResults = <<>>
    /\ seenRecords = {}
    /\ partial = <<>>
    /\ len = 0
    /\ calls = <<>>
    /\ elapsed = 0
    /\ response = NoResponse
    /\ sq = <<>>
    /\ st = <<>>
    /\ sres = 0 - 1
    /\ addrInput = NoAddressInput
    /\ fullAddress = NotComposed
    /\ caller = "none"
    /\ searches = <<>>
    /\ batchResults = <<>>
    /\ statsPromise = NoPromise
    /\ db \in [total_records : 0..MaxRecords, countries : 0..MaxCountries]
    /\ http = NoAnswer
    /\ parked = IdleContext

HealthNext ==
    \/ healthRoute
    \/ statsRoute
    \/ getStatsReturns
    \/ getStatsRaises
    \/ Finish

HealthSpec == HealthInit /\ [][HealthNext]_vars

----------------------------------------------------------------------------
(* GET /validate *)

\* the third argument the route passes: { fuzzy: false, limit: 1 }
ValidateOptions == [kind |-> "object", fuzzy |-> FALSE, limit |-> 1]

\* what if (fuzzy) makes of the argument: an object is truthy
ToBoolean(v) == v.kind = "object"

MissingParameters ==
    [status |-> 400,
     body |-> [kind |-> "error", success |-> FALSE,
               error |-> "Missing required parameters: country and postalCode"]]

\* variant: the match type is not looked at
IsValidAnyMatch(result) == result.success /\ Len(result.results) > 0

\* result.success && result.matchType === 'exact' && result.results &&
\* result.results.length > 0
IsValid(result) ==
    result.success /\ result.matchType = "exact" /\ Len(result.results) > 0

\* res.json(isValid)
BooleanAnswer(b) == [status |-> 200, body |-> [kind |-> "boolean", val |-> b]]

\* GET /validate up to the first await
validateRoute ==
    /\ pc = "idle"
    /\ caller = "none"
    /\ http = NoAnswer
    /\ caller' = "validate"
    /\ \E country \in CountryArgs, postalCode \in PostalArgs :
          IF Falsy(country) \/ Falsy(postalCode)
          THEN /\ http' = MissingParameters
               /\ Drop
          ELSE /\ searchPostalCode(country, postalCode, ToBoolean(ValidateOptions))
               /\ http' = NoAnswer
    /\ UNCHANGED <<searches, batchResults, statsPromise, db, scoreVars, addressVars,
                   parked>>

\* the awaited lookup resolved (it never rejects): the route answers
validateResponds ==
    /\ pc = "responded"
    /\ caller = "validate"
    /\ http = NoAnswer
    /\ http' = BooleanAnswer(IsValid(response))
    /\ UNCHANGED <<lookupVars, caller, searches, batchResults, statsPromise, db,
                   scoreVars, addressVars, parked>>

ValidateNext ==
    \/ validateRoute
    \/ findExactReturns
    \/ findExactRaises
    \/ findFuzzyReturns
    \/ findFuzzyRaises
    \/ prefixQueryReturns
    \/ prefixQueryRaises
    \/ findByPlaceReturns
    \/ findByPlaceRaises
    \/ validateResponds
    \/ Finish

ValidateSpec == Init /\ [][ValidateNext]_vars

----------------------------------------------------------------------------
(* Address harness: constructFullAddress applied to enumerated rows *)

\* one country code for each case label of the switch, and one for default
AddressCountries ==
    { US, <<"C", "A">>, <<"G", "B">>, <<"U", "K">>, DE, FR, IT, <<"E", "S">>,
      <<"A", "U">>, <<"X", "X">> }

\* values of place_name, admin_name1, admin_code1 and admin_name2
AddressTexts == {NullText, <<"a">>, <<"A">>, <<"a", "b">>, <<"b", " ">>}

\* values of postal_code
AddressCodes == {NullText, <<"a">>, <<"1">>, <<" ">>}

AddressRows ==
    { Row(0, country, code, place, name1, code1, name2, NullAccuracy) :
        country \in AddressCountries, code \in AddressCodes, place \in AddressTexts,
        name1 \in AddressTexts, code1 \in AddressTexts, name2 \in AddressTexts }

AddressCall ==
    /\ fullAddress = NotComposed
    /\ fullAddress' = constructFullAddress(addrInput)
    /\ UNCHANGED addrInput
    /\ UNCHANGED <<lookupVars, scoreVars, serverVars, parked>>

AddressInit ==
    /\ pc = "idle"
    /\ req = NoRequest
    /\ query = NoQuery
    /\ exactResults = <<>>
    /\ allResults = <<>>
    /\ seenRecords = {}
    /\ partial = <<>>
    /\ len = 0
    /\ calls = <<>>
    /\ elapsed = 0
    /\ response = NoResponse
    /\ sq = <<>>
    /\ st = <<>>
    /\ sres = 0 - 1
    /\ addrInput \in AddressRows
    /\ fullAddress = NotComposed
    /\ caller = "none"
    /\ searches = <<>>
    /\ batchResults = <<>>
    /\ statsPromise = NoPromise
    /\ db = StoreCounts
    /\ http = NoAnswer
    /\ parked = IdleContext

AddressSpec == AddressInit /\ [][AddressCall]_vars

----------------------------------------------------------------------------
(* Two requests in flight on one SearchService.  Node runs one stretch of  *)
(* code at a time and leaves a request only at an await, so the requests   *)
(* interleave action by action.  The variables pc .. response, caller,     *)
(* searches, batchResults and http hold the locals of the request that     *)
(* runs; parked holds those of the other.  The fields of the service       *)
(* (statements, maxResults) and the store are written by no request.       *)

\* the locals of the request that runs
Context ==
    [pc |-> pc, req |-> req, query |-> query, exactResults |-> exactResults,
     allResults |-> allResults, seenRecords |-> seenRecords, partial |-> partial,
     len |-> len, calls |-> calls, elapsed |-> elapsed, response |-> response,
     caller |-> caller, searches |-> searches, batchResults |-> batchResults,
     http |-> http]

\* variant: seenRecords is one Set of the service, not a local of findFuzzyMatches
SwitchSharingSeen ==
    /\ Context # parked
    /\ parked' = Context
    /\ pc' = parked.pc
    /\ req' = parked.req
    /\ query' = parked.query
    /\ exactResults' = parked.exactResults
    /\ allResults' = parked.allResults
    /\ partial' = parked.partial
    /\ len' = parked.len
    /\ calls' = parked.calls
    /\ elapsed' = parked.elapsed
    /\ response' = parked.response
    /\ caller' = parked.caller
    /\ searches' = parked.searches
    /\ batchResults' = parked.batchResults
    /\ http' = parked.http
    /\ UNCHANGED <<seenRecords, statsPromise, db, scoreVars, addressVars>>

\* the event loop turns to the other request
Switch ==
    /\ Context # parked
    /\ parked' = Context
    /\ pc' = parked.pc
    /\ req' = parked.req
    /\ query' = parked.query
    /\ exactResults' = parked.exactResults
    /\ allResults' = parked.allResults
    /\ seenRecords' = parked.seenRecords
    /\ partial' = parked.partial
    /\ len' = parked.len
    /\ calls' = parked.calls
    /\ elapsed' = parked.elapsed
    /\ response' = parked.response
    /\ caller' = parked.caller
    /\ searches' = parked.searches
    /\ batchResults' = parked.batchResults
    /\ http' = parked.http
    /\ UNCHANGED <<statsPromise, db, scoreVars, addressVars>>

\* the requests made while another may be in flight
ConcurrentLookups ==
    { [country |-> Str(DE), postalCode |-> Str(<<"2", "2", "2">>), fuzzy |-> TRUE],
      [country |-> Str(<<" ", "u", "s">>), postalCode |-> Str(<<"1", "2">>),
       fuzzy |-> FALSE] }

ConcurrentSuggests ==
    { [country |-> Str(US), partial |-> Str(<<"1", "2">>), limit |-> 2] }

ConcurrentBatches ==
    { <<SearchObject(Str(US), Str(<<"1", "2">>), "undefined"),
        SearchObject(Str(DE), Str(<<"2">>), "false")>> }

concurrentLookup ==
    /\ pc = "idle"
    /\ caller = "none"
    /\ \E r \in ConcurrentLookups : searchPostalCode(r.country, r.postalCode, r.fuzzy)
    /\ UNCHANGED outerVars

concurrentSuggest ==
    /\ pc = "idle"
    /\ caller = "none"
    /\ \E r \in ConcurrentSuggests : suggest(r.country, r.partial, r.limit)
    /\ UNCHANGED outerVars

concurrentBatch ==
    /\ pc = "idle"
    /\ caller = "none"
    /\ http = NoAnswer
    /\ \E body \in ConcurrentBatches : PostBatch(body)
    /\ UNCHANGED <<statsPromise, db, scoreVars, addressVars, parked>>

ConcurrentNext ==
    \/ concurrentLookup
    \/ concurrentSuggest
    \/ concurrentBatch
    \/ findExactReturns
    \/ findExactRaises
    \/ findFuzzyReturns
    \/ findFuzzyRaises
    \/ prefixQueryReturns
    \/ prefixQueryRaises
    \/ findByPlaceReturns
    \/ findByPlaceRaises
    \/ suggestFindFuzzyReturns
    \/ suggestFindFuzzyRaises
    \/ searchMultipleResumes
    \/ Return
    \/ Finish
    \/ Switch

ConcurrentSpec == Init /\ [][ConcurrentNext]_vars

----------------------------------------------------------------------------
(* Scorer harness: the pure function applied to enumerated inputs *)

ScoreAlphabet == {"1", "a", "A"}

ScoreStrings == StringsUpTo(ScoreAlphabet, MaxScoreLen)

NotScored == 0 - 1

ScoreCall ==
    /\ sres = NotScored
    /\ sres' = calculateSimilarity(sq, st)
    /\ UNCHANGED <<sq, st>>
    /\ UNCHANGED <<lookupVars, addressVars, serverVars, parked>>

ScoreInit ==
    /\ pc = "idle"
    /\ req = NoRequest
    /\ query = NoQuery
    /\ exactResults = <<>>
    /\ allResults = <<>>
    /\ seenRecords = {}
    /\ partial = <<>>
    /\ len = 0
    /\ calls = <<>>
    /\ elapsed = 0
    /\ response = NoResponse
    /\ sq \in ScoreStrings
    /\ st \in ScoreStrings
    /\ sres = NotScored
    /\ Apart

ScoreSpec == ScoreInit /\ [][ScoreCall]_vars

----------------------------------------------------------------------------
(* Vocabulary of the properties *)

Responded == pc = "responded"

\* the request passed validation and normalization and queried the store
Validated == calls # <<>>

CallIndices == 1..Len(calls)

FuzzyCallIssued ==
    \E k \in CallIndices : calls[k].op \in {"findFuzzy", "findByPlace"}

SomeCallRaised == \E k \in CallIndices : calls[k].status = "error"

\* absent, empty or blank
EmptyAfterNormalization(v) ==
    v.kind = "undefined" \/ (v.kind = "string" /\ Trim(v.val) = <<>>)

\* a truthy argument that is not a string
NonStringArgument ==
    /\ ~Falsy(req.country)
    /\ ~Falsy(req.postalCode)
    /\ (req.country.kind # "string" \/ req.postalCode.kind # "string")

\* the retrieval strategy that issued call k
Strategy(k) ==
    CASE calls[k].op = "findExact" -> "exact"
      [] calls[k].op = "findByPlace" -> "place"
      [] k = 2 -> "pattern"
      [] OTHER -> "prefix"

StrategyRaised(name) ==
    \E k \in CallIndices : Strategy(k) = name /\ calls[k].status = "error"

\* keys of the rows delivered by the strategies in which no call raised
DeliveredKeys ==
    UNION { {RecordKey(calls[k].rows[j]) : j \in 1..Len(calls[k].rows)} :
            k \in {i \in CallIndices : ~StrategyRaised(Strategy(i))} }

\* the score of row against the normalized query clears 0.5
Clears(row) == 2 * calculateSimilarity(query.postalCode, row.postal_code) >= ScoreScale

\* the arguments are a (country, postalCode) pair of a row of the store
VerbatimPair ==
    /\ req.country.kind = "string"
    /\ req.postalCode.kind = "string"
    /\ \E r \in store : /\ r.country_code = req.country.val
                        /\ r.postal_code = req.postalCode.val

----------------------------------------------------------------------------
(* Properties *)

\* C1: a lookup whose country or postal code is empty after trimming (absent,
\* empty or blank) issues no store query and answers success=false with an error.
C1_EmptyArgumentIssuesNoQuery ==
    (pc # "idle" /\ (\/ EmptyAfterNormalization(req.country)
                     \/ EmptyAfterNormalization(req.postalCode)))
        => /\ calls = <<>>
           /\ Responded => (~response.success /\ response.error # "")

\* C2: when the exact query returns at least one row the lookup answers
\* success=true, matchType=exact with the formatted exact rows, and no
\* fuzzy-pattern, prefix or place-name query is issued, whatever the fuzzy flag.
C2_ExactHitAnswersExact ==
    (Validated /\ calls[1].status = "ok" /\ calls[1].rows # <<>>)
        => /\ Responded
           /\ response.success
           /\ response.matchType = "exact"
           /\ response.results = formatResults(calls[1].rows)
           /\ ~FuzzyCallIssued

C2_Witness ==
    /\ Responded
    /\ req.fuzzy
    /\ response.matchType = "exact"
    /\ Len(response.results) > 1
    /\ findFuzzy(query.country, query.postalCode) # {<<>>}

\* C3: a fuzzy-stage query is issued only after the exact query returned no row
\* and with fuzzy enabled; with fuzzy disabled no fuzzy-pattern or place-name
\* query is issued and the answer is never matchType=fuzzy.
C3_FuzzyStageOnlyWhenEnabledAndExactEmpty ==
    /\ FuzzyCallIssued => /\ calls[1].op = "findExact"
                          /\ calls[1].status # "pending"
                          /\ calls[1].rows = <<>>
                          /\ req.fuzzy
    /\ (pc # "idle" /\ ~req.fuzzy) => /\ ~FuzzyCallIssued
                                      /\ response.matchType # "fuzzy"
    /\ response.matchType = "fuzzy" => FuzzyCallIssued

C3_Witness ==
    /\ Responded
    /\ ~req.fuzzy
    /\ Validated
    /\ calls[1].status = "ok"
    /\ calls[1].rows = <<>>
    /\ response.matchType = "none"
    /\ findFuzzy(query.country, query.postalCode) # {<<>>}

\* C4: a valid query whose exact query returns no row and for which no fuzzy
\* candidate clears the threshold (or fuzzy is disabled) is answered success=true,
\* matchType=none, results=[]; and in every successful answer matchType=none
\* holds exactly when the result list is empty.
C4_NoMatchAnswersNone ==
    Responded =>
        /\ (/\ Validated
            /\ calls[1].rows = <<>>
            /\ \/ ~req.fuzzy
               \/ \A k \in CallIndices : \A j \in 1..Len(calls[k].rows) :
                      ~Clears(calls[k].rows[j]))
              => /\ response.success
                 /\ response.matchType = "none"
                 /\ response.results = <<>>
        /\ response.success => (response.matchType = "none" <=> response.results = <<>>)

C4_Witness ==
    /\ Responded
    /\ req.fuzzy
    /\ response.success
    /\ response.matchType = "none"
    /\ \E k \in CallIndices : calls[k].rows # <<>>

C6_StrategiesFailSoft ==
    (Responded /\ Validated /\ SomeCallRaised)
        => /\ response.success
           /\ StrategyRaised("exact") => response.matchType # "exact"
           /\ \A i \in 1..Len(response.results) :
                  RecordKey(response.results[i]) \in DeliveredKeys
           /\ (req.fuzzy /\ calls[1].rows = <<>>)
                 => /\ Len(calls) >= 3
                    /\ calls[2].op = "findFuzzy"
                    /\ calls[2].arg = query.postalCode
                    /\ calls[Len(calls)].op = "findByPlace"
                    /\ calls[Len(calls)].status # "pending"
                    /\ (Len(query.postalCode) - 1 >= MinPrefixLength(query.postalCode))
                          => /\ calls[3].op = "findFuzzy"
                             /\ Len(calls[3].arg) = Len(query.postalCode) - 1

C6_Witness ==
    /\ Responded
    /\ StrategyRaised("prefix")
    /\ \E k \in CallIndices : /\ Strategy(k) = "prefix"
                              /\ calls[k].rows # <<>>
                              /\ \E j \in 1..Len(calls[k].rows) :
                                    /\ Clears(calls[k].rows[j])
                                    /\ RecordKey(calls[k].rows[j]) \notin DeliveredKeys
    /\ calls[Len(calls)].status = "ok"
    /\ response.success

\* C7 as stated: an error raised during store access surfaces as success=false
\* with the message 'Internal search error', and lookup never throws.
C7_StoreErrorSurfacesAsInternalError ==
    Responded =>
        /\ response.fields # {}
        /\ SomeCallRaised => /\ ~response.success
                             /\ response.error = "Internal search error"

\* C7 amended: lookup never throws; an error raised outside the store calls (a
\* country or postal code that is not a string) surfaces as success=false with
\* only the message 'Internal search error'; an error raised by a store call
\* never does: the lookup still answers success=true.
C7_OnlyOrchestrationErrorsSurface ==
    Responded =>
        /\ response.fields # {}
        /\ SomeCallRaised => response.success
        /\ NonStringArgument
              => /\ ~response.success
                 /\ response.error = "Internal search error"
                 /\ response.fields = {"success", "error", "results", "searchTime"}
                 /\ response.results = <<>>
        /\ response.error = "Internal search error" => NonStringArgument

C7_Witness ==
    /\ Responded
    /\ req.country.kind = "string"
    /\ req.postalCode.kind = "number"
    /\ response.error = "Internal search error"

\* C8: every result of lookup, on every path, includes searchTime, the time
\* elapsed since the start of the request.
C8_EveryResultHasSearchTime ==
    Responded => /\ "searchTime" \in response.fields
                 /\ response.searchTime = elapsed

\* C9: the similarity score lies in [0,1]: the edit distance never exceeds the
\* longer length, so the base term is not negative, and the sum is capped at 1.0.
C9_ScoreInUnitInterval ==
    sres # NotScored
        => /\ Levenshtein(sq, st) <= Max2(Len(sq), Len(st))
           /\ 0 <= sres
           /\ sres <= ScoreScale

C9_Witness ==
    /\ sres # NotScored
    /\ sq # st
    /\ RawSimilarity(sq, st) > ScoreScale
    /\ sres = ScoreScale

\* C10: score(s, s) is exactly 1.0 for every string s, the empty string included.
C10_SelfScoreIsOne ==
    (sres # NotScored /\ sq = st) => sres = ScoreScale

C10_Witness ==
    /\ sres # NotScored
    /\ sq = <<>>
    /\ st = <<>>
    /\ sres = ScoreScale

----------------------------------------------------------------------------
(* C11: symmetry of the score *)

\* C11 (as stated): among the strings the scorer is applied to, some pair
\* scores differently in the two argument orders, score(a, b) # score(b, a).
C11_SomePairScoresAsymmetrically ==
    sres # NotScored =>
        \E a \in ScoreStrings, b \in ScoreStrings :
            calculateSimilarity(a, b) # calculateSimilarity(b, a)

\* C11 (as the code behaves): every term of the score, the prefix bonus
\* included, is divided by the longer of the two lengths, so the score of a
\* pair is the same in both argument orders.
C11_ScoreIsSymmetric ==
    sres # NotScored => sres = calculateSimilarity(st, sq)

\* a scored pair of different lengths, with a common prefix, below the cap
C11_Witness ==
    /\ sres # NotScored
    /\ Len(sq) < Len(st)
    /\ PrefixLength(sq, st, 1) > 0
    /\ sres < ScoreScale

----------------------------------------------------------------------------
(* C12..C19: the aggregated fuzzy result *)

\* the request was answered with matchType = fuzzy
FuzzyAnswer == Responded /\ response.matchType = "fuzzy"

\* C12: every record of a fuzzy answer carries the score of its postal code
\* against the normalized query, and that score is at least 0.5; no record
\* whose postal code scores below 0.5 is returned.
C12_FuzzyRecordsClearThreshold ==
    FuzzyAnswer =>
        \A i \in 1..Len(response.results) :
            LET rec == response.results[i]
            IN  /\ rec.similarity_score
                      = calculateSimilarity(query.postalCode, rec.postal_code)
                /\ 2 * rec.similarity_score >= ScoreScale
                /\ Clears(rec)

\* a fuzzy answer to a request in which a strategy other than fuzzy-pattern
\* fetched a row scoring below 0.5
C12_Witness ==
    /\ FuzzyAnswer
    /\ \E k \in CallIndices :
          /\ Strategy(k) \in {"prefix", "place"}
          /\ \E j \in 1..Len(calls[k].rows) : ~Clears(calls[k].rows[j])

\* the scores of a fuzzy answer, in the order of the list
ResultScores ==
    [i \in 1..Len(response.results) |-> response.results[i].similarity_score]

\* C13: in a fuzzy answer no record scores more than 0.01 below a record
\* that comes later in the list.
C13_SortedByScoreUpToTolerance ==
    FuzzyAnswer =>
        \A i \in 1..Len(ResultScores), j \in 1..Len(ResultScores) :
            i < j => 100 * (ResultScores[j] - ResultScores[i]) <= ScoreScale

\* records i and j of the answer score within 0.01 of each other
ScoresTied(i, j) == 100 * Abs(ResultScores[i] - ResultScores[j]) <= ScoreScale

\* the accuracy of record i of the answer, a missing accuracy counted as 0
ResultAccuracy(i) ==
    IF response.results[i].accuracy = NullAccuracy THEN 0
    ELSE response.results[i].accuracy

\* C14: of two records of a fuzzy answer with tied scores, the one with the
\* higher accuracy (a missing accuracy counting as 0) comes first; with equal
\* accuracies, a missing one against 0 included, the one with the lower
\* postal code comes first.
C14_TiesBrokenByAccuracyThenPostalCode ==
    FuzzyAnswer =>
        \A i \in 1..Len(response.results), j \in 1..Len(response.results) :
            (i < j /\ ScoresTied(i, j)) =>
                /\ ResultAccuracy(i) >= ResultAccuracy(j)
                /\ ResultAccuracy(i) = ResultAccuracy(j) =>
                      LocaleCompare(response.results[i].postal_code,
                                    response.results[j].postal_code) <= 0

\* the result lists the fuzzy stage may give for this query when no store
\* call raises, over the orders in which the store may deliver tied rows
FuzzyOutcomes(country, postalCode) ==
    { formatResults(findFuzzyMatches(postalCode, patternRows, prefixRows, placeRows)) :
        patternRows \in findFuzzy(country, postalCode),
        prefixRows \in partialPostalCodeSearch(country, postalCode,
                                               Len(postalCode) - 1, <<>>),
        placeRows \in findByPlace(country, postalCode) }

\* C15: a fuzzy answer given without store errors is the only list the
\* fuzzy stage can give for that query and store, whatever the order in which
\* the store delivers rows its ORDER BY leaves tied.
C15_SameInputsSameOrderedList ==
    (FuzzyAnswer /\ ~SomeCallRaised) =>
        FuzzyOutcomes(query.country, query.postalCode) = {response.results}

\* the (country code, postal code, place name) of a row or record
KeyTriple(r) == <<r.country_code, r.postal_code, r.place_name>>

\* the rows the aggregator met, in order: those of calls k.. of the fuzzy
\* strategies in which no call raised
RECURSIVE EncounteredFrom(_)
EncounteredFrom(k) ==
    IF k > Len(calls) THEN <<>>
    ELSE (IF calls[k].op # "findExact" /\ ~StrategyRaised(Strategy(k))
          THEN calls[k].rows ELSE <<>>) \o EncounteredFrom(k + 1)

Encountered == EncounteredFrom(1)

\* the first row met that has the key of rec
FirstEncountered(rec) ==
    Encountered[CHOOSE i \in 1..Len(Encountered) :
                    /\ KeyTriple(Encountered[i]) = KeyTriple(rec)
                    /\ \A j \in 1..(i - 1) : KeyTriple(Encountered[j]) # KeyTriple(rec)]

\* C16: no two records of a fuzzy answer have the same (country code, postal
\* code, place name), and each record is the first row with its key that the
\* strategies delivered, in the order fuzzy-pattern, prefix-shrinking,
\* place-name.
C16_OneRecordPerKeyFirstWins ==
    FuzzyAnswer =>
        /\ \A i \in 1..Len(response.results), j \in 1..Len(response.results) :
              i # j => KeyTriple(response.results[i]) # KeyTriple(response.results[j])
        /\ \A i \in 1..Len(response.results) :
              LET rec == response.results[i]
              IN  /\ \E n \in 1..Len(Encountered) :
                        KeyTriple(Encountered[n]) = KeyTriple(rec)
                  /\ rec = FormatResult(Scored(FirstEncountered(rec),
                                              rec.similarity_score))

\* a fuzzy answer holding a record whose key was delivered by two calls and
\* in two versions that differ in accuracy
C16_Witness ==
    /\ FuzzyAnswer
    /\ \E i \in 1..Len(response.results), m \in 1..Len(Encountered),
          n \in 1..Len(Encountered) :
          /\ m < n
          /\ KeyTriple(Encountered[m]) = KeyTriple(response.results[i])
          /\ KeyTriple(Encountered[n]) = KeyTriple(response.results[i])
          /\ Encountered[m].accuracy # Encountered[n].accuracy
    /\ \E k \in CallIndices, l \in CallIndices, i \in 1..Len(response.results) :
          /\ Strategy(k) # Strategy(l)
          /\ \E a \in 1..Len(calls[k].rows) :
                KeyTriple(calls[k].rows[a]) = KeyTriple(response.results[i])
          /\ \E b \in 1..Len(calls[l].rows) :
                KeyTriple(calls[l].rows[b]) = KeyTriple(response.results[i])

\* C17: a fuzzy answer holds at most 20 records, and they are the first 20
\* of the sorted list of candidates.
C17_AtMostTwentyFirstOfSorted ==
    FuzzyAnswer =>
        /\ Len(response.results) <= 20
        /\ response.results
              = formatResults(SubSeq(allResults, 1, Min2(20, Len(allResults))))

\* a fuzzy answer after prefix-shrinking accumulated more than 20 rows and
\* more than 20 distinct candidates cleared the threshold
C17_Witness ==
    /\ FuzzyAnswer
    /\ Len(partial) > 20
    /\ Len(allResults) > 20
    /\ Cardinality({KeyTriple(allResults[i]) : i \in 1..Len(allResults)}) > 20

\* C18: a shortened-prefix query is issued only in a request whose exact
\* query and whose fuzzy-pattern query on the full postal code both returned
\* no rows.
C18_PrefixShrinkingOnlyAfterEmptyPattern ==
    \A k \in CallIndices :
        Strategy(k) = "prefix" =>
            \A j \in 1..(k - 1) :
                Strategy(j) \in {"exact", "pattern"} => calls[j].rows = <<>>

\* the number of rows returned by the calls from..to
RECURSIVE RowsReturned(_, _)
RowsReturned(from, to) ==
    IF from > to THEN 0 ELSE Len(calls[from].rows) + RowsReturned(from + 1, to)

\* max(2, floor(0.6 * L)) for the normalized query
PrefixFloor == Max2(2, (6 * Len(query.postalCode)) \div 10)

\* the shortened-prefix queries of a request are its calls 3, 4, ...: the
\* n-th asks for the first L - n characters of the query, which are at
\* least the floor, and is issued only if the queries before it returned
\* fewer than 20 rows together and none of them raised
PrefixQueriesShrinkToFloor ==
    \A k \in CallIndices :
        Strategy(k) = "prefix" =>
            LET n == k - 2
                L == Len(query.postalCode)
            IN  /\ n >= 1
                /\ L - n >= PrefixFloor
                /\ calls[k].arg = SubSeq(query.postalCode, 1, L - n)
                /\ RowsReturned(3, k - 1) < 20
                /\ \A j \in 3..(k - 1) : calls[j].status = "ok"

----------------------------------------------------------------------------
(* C20: suggest *)

\* C20: a suggest call whose partial postal code, once trimmed, has fewer
\* than 2 characters makes no store call and is answered success = false
\* with no suggestions.
C20_ShortPartialIssuesNoQuery ==
    (/\ pc \in {"suggest", "responded"}
     /\ req.partial.kind = "string"
     /\ Len(Trim(req.partial.val)) < 2) =>
        /\ calls = <<>>
        /\ Responded => (~response.success /\ response.suggestions = <<>>)

----------------------------------------------------------------------------
(* C21, C22: the suggestion list *)

\* suggest resolved with success = true
SuggestSucceeded == Responded /\ response.success

\* the (postal code, place name) pair of a row
CodeAndPlace(r) == <<r.postal_code, r.place_name>>

\* positions of the rows that differ in (postal code, place name) from every
\* row before them
FirstOfPair(rows) ==
    {i \in 1..Len(rows) : \A j \in 1..(i - 1) : CodeAndPlace(rows[j]) # CodeAndPlace(rows[i])}

\* the n-th smallest member of a set of positions
NthOf(positions, n) ==
    CHOOSE i \in positions : Cardinality({j \in positions : j < i}) = n - 1

\* C21: a successful suggest made one store call, the fuzzy-pattern query,
\* and its suggestions are the first `limit` rows of that result that are
\* distinct by (postal code, place name), in the order the store delivered
\* them, whatever their similarity to the partial input.
C21_SuggestionsAreFirstDistinctRows ==
    SuggestSucceeded =>
        /\ Len(calls) = 1
        /\ calls[1].op = "findFuzzy"
        /\ calls[1].status = "ok"
        /\ LET rows == calls[1].rows
               keep == FirstOfPair(rows)
               list == response.suggestions
           IN  /\ Len(list) = Min2(req.limit, Cardinality(keep))
               /\ Len(list) <= req.limit
               /\ \A n \in 1..Len(list) : list[n] = Suggestion(rows[NthOf(keep, n)])
               /\ \A m, n \in 1..Len(list) :
                      CodeAndPlace(list[m]) = CodeAndPlace(list[n]) => m = n

\* the store delivered two rows with one key and more distinct rows than the
\* limit, and a suggestion scores below 0.5 against the partial input
C21_Witness ==
    /\ SuggestSucceeded
    /\ Len(calls) = 1
    /\ Cardinality(FirstOfPair(calls[1].rows)) < Len(calls[1].rows)
    /\ Cardinality(FirstOfPair(calls[1].rows)) > req.limit
    /\ Len(response.suggestions) = req.limit
    /\ \E n \in 1..Len(response.suggestions) :
          2 * calculateSimilarity(query.partial, response.suggestions[n].postal_code)
              < ScoreScale

\* p occurs in s as a run of consecutive characters
Contains(s, p) ==
    \E k \in 0..(Len(s) - Len(p)) : SubSeq(s, k + 1, k + Len(p)) = p

\* s is p or a shorter prefix of p
IsPrefixOf(s, p) == Len(s) <= Len(p) /\ SubSeq(p, 1, Len(s)) = s

\* p holds a character that LIKE reads as a wildcard
HasWildcard(p) == \E i \in 1..Len(p) : p[i] \in {"%", "_"}

----------------------------------------------------------------------------
(* C23: searchMultiple *)

\* the batch route answered a request whose list it gave to searchMultiple
BatchAnswered == caller = "batch" /\ http # NoAnswer /\ searches # <<>>

\* the query a result carries is the list item it was made for, or that
\* item's country and postal code as the lookup normalized them
Belongs(result, search) ==
    \/ result.query = search
    \/ /\ search.kind = "object"
       /\ search.country.kind = "string"
       /\ search.postalCode.kind = "string"
       /\ result.query = [country |-> NormalizeCountry(search.country.val),
                          postalCode |-> NormalizePostalCode(search.postalCode.val)]

\* C23: searchMultiple over a list of N items resolves to N results, the
\* i-th made for the i-th item, whatever fails in single items: a missing
\* or non-string country or postal code, an item that is null or no
\* object, a store error.
C23_EveryItemGetsItsResult ==
    BatchAnswered =>
        /\ http.status = 200
        /\ http.body.kind = "batch"
        /\ Len(http.body.results) = Len(searches)
        /\ \A i \in 1..Len(searches) : Belongs(http.body.results[i], searches[i])

----------------------------------------------------------------------------
(* C24: healthCheck and GET /health *)

HealthAnswered == caller = "health" /\ http # NoAnswer

\* C24: healthCheck reports healthy = true exactly when the statistics were
\* read and count more than 0 records; when they cannot be read it still
\* resolves, to a result that is not healthy, and GET /health answers 503.
C24_HealthyIffRecords ==
    HealthAnswered =>
        /\ http.body.kind = "health"
        /\ http.body.healthy = "true" <=>
              (statsPromise.state = "stats" /\ db.total_records > 0)
        /\ statsPromise.state = "null" =>
              (http.body.healthy # "true" /\ http.status = 503)
        /\ http.status = (IF http.body.healthy = "true" THEN 200 ELSE 503)

\* the store raised while the statistics were read
C24_Witness ==
    /\ HealthAnswered
    /\ statsPromise.state = "null"
    /\ http.status = 503
    /\ http.body.healthy = "null"

----------------------------------------------------------------------------
(* C25, C28: GET /validate *)

\* the route answered a request that gave both parameters
ValidateAnswered ==
    /\ caller = "validate"
    /\ http # NoAnswer
    /\ ~MissingArgument(req.country, req.postalCode)

\* the exact query on the normalized pair was made and returned a row
ExactQueryReturnedRow ==
    /\ req.country.kind = "string"
    /\ req.postalCode.kind = "string"
    /\ Len(calls) >= 1
    /\ calls[1].op = "findExact"
    /\ calls[1].country = NormalizeCountry(req.country.val)
    /\ calls[1].arg = NormalizePostalCode(req.postalCode.val)
    /\ calls[1].status = "ok"
    /\ calls[1].rows # <<>>

\* C25: GET /validate with both parameters answers 200 with the boolean
\* true exactly when the exact query on the normalized pair returned a row,
\* and with the boolean false otherwise, store and internal errors included.
C25_ValidateAnswersExactHit ==
    ValidateAnswered =>
        /\ http.status = 200
        /\ http.body.kind = "boolean"
        /\ http.body.val <=> ExactQueryReturnedRow

\* the exact query raised for a pair the store holds, and the answer is false
C25_Witness ==
    /\ ValidateAnswered
    /\ Len(calls) >= 1
    /\ calls[1].status = "error"
    /\ findExact(calls[1].country, calls[1].arg) # {<<>>}
    /\ http = BooleanAnswer(FALSE)

\* C28: a /validate request makes no store query other than the exact one.
C28_ValidateIssuesExactQueryOnly ==
    caller = "validate" =>
        \A k \in 1..Len(calls) : calls[k].op = "findExact"

----------------------------------------------------------------------------
(* C26: constructFullAddress *)

Composed == fullAddress # NotComposed

\* the fragments of a composed address: the runs between ", "
RECURSIVE FragmentsFrom(_, _)
FragmentsFrom(s, fragment) ==
    IF s = <<>> THEN <<fragment>>
    ELSE IF Len(s) >= 2 /\ s[1] = "," /\ s[2] = " "
    THEN <<fragment>> \o FragmentsFrom(SubSeq(s, 3, Len(s)), <<>>)
    ELSE FragmentsFrom(Tail(s), Append(fragment, Head(s)))

Fragments(s) == FragmentsFrom(s, <<>>)

\* C26: a composed fullAddress is not empty and holds no two consecutive
\* fragments that are equal ignoring case, under every country rule; when
\* no fragment remains it is the postal code or 'Address not available'.
C26_NoRepeatedFragmentNeverEmpty ==
    Composed =>
        /\ fullAddress # <<>>
        /\ LET fragments == Fragments(fullAddress)
           IN  \A i \in 1..(Len(fragments) - 1) :
                   ToLowerCase(fragments[i]) # ToLowerCase(fragments[i + 1])
        /\ TrimmedParts(AddressParts(addrInput)) = <<>> =>
              fullAddress = (IF Present(addrInput.postal_code)
                             THEN addrInput.postal_code ELSE AddressNotAvailable)

\* under the default rule two fragments that differ only in case were
\* collected next to each other, and one was dropped
C26_Witness ==
    /\ Composed
    /\ addrInput.country_code = <<"X", "X">>
    /\ LET parts == TrimmedParts(AddressParts(addrInput))
       IN  /\ \E i \in 1..(Len(parts) - 1) :
                 parts[i] # parts[i + 1] /\ ToLowerCase(parts[i]) = ToLowerCase(parts[i + 1])
           /\ Len(Fragments(fullAddress)) < Len(parts)

----------------------------------------------------------------------------
(* C29: the order of the store queries of one lookup *)

\* the first n characters of s
FirstChars(s, n) == SubSeq(s, 1, n)

\* C29: the store queries of a lookup are made one at a time, each after
\* the one before it has returned or raised, in this order: exact on the
\* upper-cased, trimmed country and the trimmed postal code; fuzzy-pattern
\* on the whole postal code; fuzzy-pattern on its prefixes, each one
\* character shorter than the one before; place-name; all with the same
\* country code.
C29_QueriesInFixedOrder ==
    calls # <<>> =>
        LET n == Len(calls)
            code == NormalizePostalCode(req.postalCode.val)
        IN  /\ \A k \in 1..(n - 1) : calls[k].status # "pending"
            /\ \A k \in 1..n :
                  calls[k].country = ToUpperCase(Trim(req.country.val))
            /\ calls[1].op = "findExact" /\ calls[1].arg = code
            /\ n >= 2 => (calls[2].op = "findFuzzy" /\ calls[2].arg = code)
            /\ \A k \in 3..n :
                  \/ /\ calls[k].op = "findFuzzy"
                     /\ calls[k - 1].op = "findFuzzy"
                     /\ Len(calls[k].arg) = Len(calls[k - 1].arg) - 1
                     /\ calls[k].arg = FirstChars(code, Len(calls[k].arg))
                  \/ /\ calls[k].op = "findByPlace"
                     /\ calls[k].arg = code
                     /\ k = n

\* a lookup whose country was given in another form than the normalized one
\* has made the exact query, the pattern query, two prefix queries and the
\* place-name query
C29_Witness ==
    /\ Responded
    /\ Len(calls) = 5
    /\ req.country.val # query.country
    /\ calls[3].op = "findFuzzy"
    /\ calls[4].op = "findFuzzy"
    /\ calls[5].op = "findByPlace"
    /\ calls[5].status = "ok"

----------------------------------------------------------------------------
(* C27: requests in flight together *)

\* a result without its elapsed time
Masked(result) ==
    IF "searchTime" \in DOMAIN result /\ result.searchTime # NoTime
    THEN [result EXCEPT !.searchTime = 0]
    ELSE result

\* the results searchPostalCode may resolve to when it runs alone: every
\* store call returns one of the lists the store may deliver, or raises
LookupAlone(country, postalCode, fuzzy) ==
    IF MissingArgument(country, postalCode) THEN {ValidationFailure}
    ELSE IF country.kind # "string" \/ postalCode.kind # "string" THEN {InternalError(0)}
    ELSE LET c == NormalizeCountry(country.val)
             p == NormalizePostalCode(postalCode.val)
             q == [country |-> c, postalCode |-> p]
             fuzzyLists ==
                 { findFuzzyMatches(p, patternRows, prefixRows, placeRows) :
                     patternRows \in findFuzzy(c, p) \cup {<<>>},
                     prefixRows \in partialPostalCodeSearch(c, p, Len(p) - 1, <<>>)
                                        \cup {<<>>},
                     placeRows \in findByPlace(c, p) \cup {<<>>} }
         IN  {Found("exact", q, rows, 0) : rows \in findExact(c, p) \ {<<>>}}
                 \cup (IF fuzzy
                       THEN {IF list # <<>> THEN Found("fuzzy", q, list, 0)
                             ELSE NotFound(q, 0) : list \in fuzzyLists}
                       ELSE {NotFound(q, 0)})

\* the results suggest may resolve to when it runs alone
SuggestAlone(country, partialPostalCode, limit) ==
    IF Falsy(country) \/ Falsy(partialPostalCode) \/ TooShort(partialPostalCode)
    THEN {SuggestValidationFailure}
    ELSE IF country.kind # "string" \/ partialPostalCode.kind # "string"
    THEN {InternalSuggestionError}
    ELSE LET c == NormalizeCountry(country.val)
             p == Trim(partialPostalCode.val)
         IN  {InternalSuggestionError}
                 \cup {Suggested([country |-> c, partial |-> p],
                                 UniqueSuggestions(rows, 1, limit, {}, <<>>)) :
                         rows \in findFuzzy(c, p)}

\* the results searchMultiple may hold for this item when it runs alone
ItemAlone(search) ==
    {WithQuery(search, result) :
        result \in LookupAlone(Property(search, "country"),
                               Property(search, "postalCode"), NotFalse(search))}

\* what the request with these locals has produced, it may produce alone
AsAlone(ctx) ==
    /\ ctx.pc = "responded" =>
          IF "limit" \in DOMAIN ctx.req
          THEN ctx.response \in SuggestAlone(ctx.req.country, ctx.req.partial,
                                             ctx.req.limit)
          ELSE Masked(ctx.response) \in LookupAlone(ctx.req.country, ctx.req.postalCode,
                                                    ctx.req.fuzzy)
    /\ \A i \in 1..Len(ctx.batchResults) :
          Masked(ctx.batchResults[i]) \in ItemAlone(ctx.searches[i])
    /\ (ctx.caller = "batch" /\ ctx.http # NoAnswer) =>
          /\ ctx.http = BatchAnswer(ctx.batchResults)
          /\ Len(ctx.batchResults) = Len(ctx.searches)

\* C27: with two requests (lookup, suggest, searchMultiple) in flight on one
\* service over an unchanging store, interleaved in any way, each request's
\* result is, apart from the elapsed time, one it may give when it runs alone.
C27_ConcurrentRequestsAnswerAsAlone ==
    AsAlone(Context) /\ AsAlone(parked)

\* a lookup gave a fuzzy answer while another lookup, which has candidates
\* and dedup keys of its own, waits for a prefix query
C27_Witness ==
    /\ pc = "responded"
    /\ "fuzzy" \in DOMAIN req
    /\ response.success
    /\ response.matchType = "fuzzy"
    /\ parked.pc = "partial"
    /\ parked.seenRecords # {}
    /\ parked.allResults # <<>>

----------------------------------------------------------------------------
(* C30: GET /stats *)

StatsAnswered == caller = "stats" /\ http # NoAnswer

\* C30: GET /stats answers 503 'Statistics unavailable' when getStats yields
\* null, and answers 200 only with success = true and the counts the store
\* holds.
C30_StatsAnswerTellsTheCounts ==
    StatsAnswered =>
        /\ statsPromise.state = "null" => http = StatisticsUnavailable
        /\ http.status = 200 =>
              /\ http.body.success
              /\ http.body.stats = [kind |-> "stats",
                                    total_records |-> db.total_records,
                                    countries |-> db.countries]

====
